---- MODULE Spec2Model ----
(***************************************************************************)
(* ntfy-me-mcp: the MCP server and the text analysis behind ntfy_me.       *)
(*                                                                         *)
(*   processActions (src/src/utils/actions.ts)  URL extraction             *)
(*   detectMarkdown (src/build/helpers/markdown.js)  markdown detection    *)
(*   initializeServer, ntfy_me, ntfy_me_fetch (src/src/index.ts)           *)
(*   fetchMessages (src/src/utils/messages.ts)                             *)
(*                                                                         *)
(* Spec        one call of processActions or detectMarkdown                *)
(* SpecStages  detectMarkdown with the parser left open                    *)
(* SpecCalls   repeated and overlapping calls of the two functions         *)
(* SpecServer  start-up of the server and the invocations of its tools     *)
(*                                                                         *)
(* A JavaScript string is a sequence of one-character strings; string      *)
(* positions are 1-based here and 0-based in the source (match.index).     *)
(***************************************************************************)
EXTENDS Integers, Sequences, FiniteSets, TLC

VARIABLES fn, pc, text, urlMatches, actionUrls, actions,
          tokens, hasMarkdownStructure, patternsTested, result,
          callers, lastIndex, returned,
          env, NTFY_TOPIC, NTFY_URL, NTFY_TOKEN, PROTECTED_TOPIC, proc,
          call, requests, toolResult

vars == <<fn, pc, text, urlMatches, actionUrls, actions,
          tokens, hasMarkdownStructure, patternsTested, result,
          callers, lastIndex, returned,
          env, NTFY_TOPIC, NTFY_URL, NTFY_TOKEN, PROTECTED_TOPIC, proc,
          call, requests, toolResult>>

actionVars == <<urlMatches, actionUrls, actions>>
detectVars == <<tokens, hasMarkdownStructure, patternsTested, result>>
\* several callers of the two functions: their calls in progress, the
\* lastIndex of the module-level URL_PATTERN, and the results returned so far
callVars == <<callers, lastIndex, returned>>
\* one call at a time, statement by statement
singleVars == <<fn, pc, text, actionVars, detectVars>>
\* the server process: its environment, the module-level configuration
\* (index.ts:23-27), the progress of initializeServer and the registered tools
configVars == <<env, NTFY_TOPIC, NTFY_URL, NTFY_TOKEN, PROTECTED_TOPIC>>
\* the tool invocation in progress, the HTTP requests it has issued and the
\* result it returned
toolVars == <<call, requests, toolResult>>
serverVars == <<configVars, proc, toolVars>>

(***************************************************************************)
(* Characters and generic string helpers                                   *)
(***************************************************************************)
LowerSeq == <<"a", "b", "c", "d", "e", "f", "g", "h", "i", "j", "k", "l", "m",
              "n", "o", "p", "q", "r", "s", "t", "u", "v", "w", "x", "y", "z">>
UpperSeq == <<"A", "B", "C", "D", "E", "F", "G", "H", "I", "J", "K", "L", "M",
              "N", "O", "P", "Q", "R", "S", "T", "U", "V", "W", "X", "Y", "Z">>
DigitSeq == <<"0", "1", "2", "3", "4", "5", "6", "7", "8", "9">>

Range(f) == {f[i] : i \in DOMAIN f}
Lower == Range(LowerSeq)
Upper == Range(UpperSeq)
Digit == Range(DigitSeq)
Alnum == Lower \cup Upper \cup Digit

\* \w of a JavaScript regular expression
WordChars == Alnum \cup {"_"}
\* \s and String.prototype.trim: white space and line terminators (ASCII part)
WhiteSpace == {" ", "\t", "\n", "\r", "\f"}
\* the characters '.' does not match
LineTerminators == {"\n", "\r"}

ToLower(c) == IF c \in Upper THEN LowerSeq[CHOOSE i \in 1..26 : UpperSeq[i] = c] ELSE c
LowerCase(s) == [i \in 1..Len(s) |-> ToLower(s[i])]

Min(a, b) == IF a < b THEN a ELSE b

\* w occurs in s at position p
HasAt(s, p, w) == /\ p >= 1
                  /\ p + Len(w) - 1 <= Len(s)
                  /\ \A k \in 1..Len(w) : s[p + k - 1] = w[k]
\* the same, ignoring case (flag i); w is lower case
HasAtCI(s, p, w) == /\ p >= 1
                    /\ p + Len(w) - 1 <= Len(s)
                    /\ \A k \in 1..Len(w) : ToLower(s[p + k - 1]) = w[k]

StartsWith(s, w) == HasAt(s, 1, w)
EndsWith(s, w) == Len(w) <= Len(s) /\ HasAt(s, Len(s) - Len(w) + 1, w)
Includes(s, c) == \E k \in 1..Len(s) : s[k] = c
\* s.slice(0, -1)
DropLast(s) == SubSeq(s, 1, Len(s) - 1)

\* first position q >= p whose character is not in cls (Len(s)+1 if none):
\* where a greedy cls* that starts at p stops
RunEnd(s, p, cls) ==
    CHOOSE q \in p..(Len(s) + 1) :
        /\ \A r \in p..(q - 1) : s[r] \in cls
        /\ (q = Len(s) + 1 \/ s[q] \notin cls)

\* String.prototype.trim
Trim(s) ==
    IF \A k \in 1..Len(s) : s[k] \in WhiteSpace THEN <<>>
    ELSE LET a == CHOOSE i \in 1..Len(s) :
                      s[i] \notin WhiteSpace /\ \A j \in 1..(i - 1) : s[j] \in WhiteSpace
             b == CHOOSE i \in 1..Len(s) :
                      s[i] \notin WhiteSpace /\ \A j \in (i + 1)..Len(s) : s[j] \in WhiteSpace
         IN  SubSeq(s, a, b)

RECURSIVE Flatten(_)
Flatten(ss) == IF ss = <<>> THEN <<>> ELSE Head(ss) \o Flatten(Tail(ss))

\* all sequences over S of length at most n
SeqsUpTo(S, n) == UNION {[1..k -> S] : k \in 0..n}

(***************************************************************************)
(* URL_PATTERN (actions.ts:2), flags g and i, is in order:                 *)
(*   "http", an optional "s", "://", an optional group "www." (greedy),    *)
(*   1 to 256 host characters (greedy), ".", 1 to 6 TLD characters         *)
(*   (greedy), a word boundary, any number of tail characters (greedy).    *)
(***************************************************************************)
HostMax == 256
TldMax == 6
HostChars == Alnum \cup {"-", "@", ":", "%", ".", "_", "+", "~", "#", "="}
TldChars == Alnum \cup {"(", ")"}
\* a slip that lets a blank continue a match
TailCharsWithBlank ==
    Alnum \cup {"-", "(", ")", "@", ":", "%", "_", "+", ".", "~", "#", "?", "&", "/", "=", " "}
TailChars == Alnum \cup {"-", "(", ")", "@", ":", "%", "_", "+", ".", "~", "#", "?", "&", "/", "="}

\* \b at position q: exactly one of s[q-1], s[q] is a word character
WordBoundary(s, q) ==
    LET before == q >= 2 /\ q - 1 <= Len(s) /\ s[q - 1] \in WordChars
        after  == q >= 1 /\ q <= Len(s) /\ s[q] \in WordChars
    IN  before # after

\* position after "http://" or "https://" at i, 0 if neither is there
SchemeEnd(s, i) ==
    IF HasAtCI(s, i, <<"h", "t", "t", "p", "s", ":", "/", "/">>) THEN i + 8
    ELSE IF HasAtCI(s, i, <<"h", "t", "t", "p", ":", "/", "/">>) THEN i + 7
    ELSE 0

\* start of the host part when the optional group (?:www\.)? takes w in {0,1} copies
HostStart(p, w) == p + 4 * w

\* the ways the pattern up to \b can match from p (the position after the
\* scheme): <<w, h, t>> = www taken, host length, TLD length
UrlSplits(s, p) ==
    { x \in {0, 1} \X (1..Min(HostMax, Len(s))) \X (1..TldMax) :
        LET hs == HostStart(p, x[1])
            dot == hs + x[2]
            te == dot + x[3]
        IN  /\ (x[1] = 1 => HasAtCI(s, p, <<"w", "w", "w", ".">>))
            /\ te <= Len(s)
            /\ \A k \in hs..(dot - 1) : s[k] \in HostChars
            /\ s[dot] = "."
            /\ \A k \in (dot + 1)..te : s[k] \in TldChars
            /\ WordBoundary(s, te + 1) }

\* backtracking order: the optional group and both quantifiers are greedy
Preferred(x, y) ==
    \/ x[1] > y[1]
    \/ x[1] = y[1] /\ x[2] > y[2]
    \/ x[1] = y[1] /\ x[2] = y[2] /\ x[3] >= y[3]

\* position after the match of URL_PATTERN that starts at i, 0 if there is none
UrlMatchEnd(s, i) ==
    LET p == SchemeEnd(s, i)
    IN  IF p = 0 THEN 0
        ELSE LET splits == UrlSplits(s, p)
             IN  IF splits = {} THEN 0
                 ELSE LET x == CHOOSE x \in splits : \A y \in splits : Preferred(x, y)
                      IN  RunEnd(s, HostStart(p, x[1]) + x[2] + x[3] + 1, TailChars)

\* text.matchAll(new RegExp(URL_PATTERN)) from lastIndex = from - 1: the
\* non-overlapping matches, left to right
RECURSIVE MatchAllFrom(_, _)
MatchAllFrom(s, from) ==
    IF from > Len(s) THEN <<>>
    ELSE LET e == UrlMatchEnd(s, from)
         IN  IF e = 0 THEN MatchAllFrom(s, from + 1)
             ELSE <<[index |-> from - 1, m |-> SubSeq(s, from, e - 1)]>>
                  \o MatchAllFrom(s, e)

\* a slip that takes the whole text for one match
MatchAllWholeText(s) == IF s = <<>> THEN <<>> ELSE <<[index |-> 0, m |-> s]>>

MatchAll(s) == MatchAllFrom(s, 1)

(***************************************************************************)
(* cleanUrl (actions.ts:19-29)                                             *)
(***************************************************************************)
\* a slip that drops the closing parenthesis without looking for an opening one
cleanUrlAlwaysStrip(url) ==
    Trim(IF EndsWith(url, <<")">>) THEN DropLast(url) ELSE url)

\* a slip that trims the URL and leaves every parenthesis in place
cleanUrlTrimOnly(url) == Trim(url)

cleanUrl(url) ==
    LET hasOpenParen == Includes(DropLast(url), "(")
        stripped == IF EndsWith(url, <<")">>) /\ ~hasOpenParen THEN DropLast(url) ELSE url
    IN  Trim(stripped)

(***************************************************************************)
(* new URL(url).hostname (actions.ts:54-55), for the strings URL_PATTERN   *)
(* can match: scheme http or https followed by "//".  The authority ends   *)
(* at the first "/", "?" or "#"; credentials end at its last "@"; the host *)
(* ends at the first ":" after them and the rest is the port, which must   *)
(* be decimal digits; an empty host is a failure; the host name is lower-  *)
(* cased.  Every other character URL_PATTERN can match, "(" and ")"        *)
(* included, is kept in the host.  Percent-decoding, IPv4 hosts and        *)
(* non-ASCII hosts are outside the alphabet of the modelled texts.         *)
(***************************************************************************)
\* first position q >= p whose character is in stops (Len(s)+1 if none)
IndexOfAny(s, p, stops) ==
    CHOOSE q \in p..(Len(s) + 1) :
        /\ \A r \in p..(q - 1) : s[r] \notin stops
        /\ (q = Len(s) + 1 \/ s[q] \in stops)

UrlAuthority(url) ==
    LET p == SchemeEnd(url, 1)
    IN  SubSeq(url, p, IndexOfAny(url, p, {"/", "?", "#"}) - 1)

UrlHostPort(url) ==
    LET a == UrlAuthority(url)
    IN  IF Includes(a, "@")
        THEN SubSeq(a, 1 + (CHOOSE i \in 1..Len(a) :
                               a[i] = "@" /\ \A j \in (i + 1)..Len(a) : a[j] # "@"), Len(a))
        ELSE a

UrlHost(url) ==
    LET hp == UrlHostPort(url)
    IN  SubSeq(hp, 1, IndexOfAny(hp, 1, {":"}) - 1)

UrlPort(url) ==
    LET hp == UrlHostPort(url)
    IN  SubSeq(hp, IndexOfAny(hp, 1, {":"}) + 1, Len(hp))

\* new URL(url) does not throw
UrlParses(url) ==
    /\ SchemeEnd(url, 1) # 0
    /\ UrlHost(url) # <<>>
    /\ \A k \in 1..Len(UrlPort(url)) : UrlPort(url)[k] \in Digit

Hostname(url) == LowerCase(UrlHost(url))

(***************************************************************************)
(* the label of an action (actions.ts:52-58)                               *)
(***************************************************************************)
WwwPrefix == <<"w", "w", "w", ".">>
LabelSuffixes == {<<".", "c", "o", "m">>, <<".", "o", "r", "g">>, <<".", "n", "e", "t">>,
                  <<".", "i", "o">>, <<".", "d", "e", "v">>}
LinkLabel == <<"l", "i", "n", "k">>
OpenPrefix == <<"O", "p", "e", "n", " ">>

\* hostname.replace(/^www\./, '')
StripWww(h) == IF StartsWith(h, WwwPrefix) THEN SubSeq(h, 5, Len(h)) ELSE h

\* h.replace(/\.(com|org|net|io|dev)$/, '')
StripSuffix(h) ==
    IF \E w \in LabelSuffixes : EndsWith(h, w)
    THEN LET w == CHOOSE w \in LabelSuffixes : EndsWith(h, w)
         IN  SubSeq(h, 1, Len(h) - Len(w))
    ELSE h

\* a slip that leaves the top-level domain in the label
urlLabelKeepSuffix(url) ==
    IF UrlParses(url) THEN StripWww(Hostname(url)) ELSE LinkLabel

\* a slip that derives the label from the host part without parsing the URL
urlLabelHostAnyway(url) == StripSuffix(StripWww(Hostname(url)))

urlLabel(url) ==
    IF UrlParses(url) THEN StripSuffix(StripWww(Hostname(url))) ELSE LinkLabel

\* a slip that builds the action without the dismissal flag set
ViewActionKeepNotification(url) ==
    [action |-> "view", label |-> OpenPrefix \o urlLabel(url), url |-> url, clear |-> FALSE]

ViewAction(url) ==
    [action |-> "view", label |-> OpenPrefix \o urlLabel(url), url |-> url, clear |-> TRUE]

(***************************************************************************)
(* processActions (actions.ts:37-69)                                       *)
(***************************************************************************)
MaxActions == 3

\* a slip that forgets the cap
sliceAll(matches) == matches

\* the order of the older processUrls: matches sorted by descending index
RECURSIVE Reverse(_)
Reverse(s) == IF s = <<>> THEN <<>> ELSE Reverse(Tail(s)) \o <<Head(s)>>
sliceSortedDescending(matches) ==
    SubSeq(Reverse(matches), 1, Min(MaxActions, Len(matches)))

\* urlMatches.slice(0, Math.min(3, urlMatches.length))
sliceFirst(matches) == SubSeq(matches, 1, Min(MaxActions, Len(matches)))

\* .map(match => cleanUrl(match[0]))
mapCleanUrl(matches) == [k \in 1..Len(matches) |-> cleanUrl(matches[k].m)]

processActions(t) ==
    LET matches == MatchAll(t)
        urls == mapCleanUrl(sliceFirst(matches))
    IN  IF Len(matches) = 0 THEN <<>>
        ELSE [k \in 1..Len(urls) |-> ViewAction(urls[k])]

(***************************************************************************)
(* MarkdownIt('zero').parse(text, {}) (markdown.js:11-13).  The preset     *)
(* "zero" enables one block rule, paragraph, and one inline rule, text:    *)
(* every maximal run of non-blank lines is a paragraph, emitted as the     *)
(* three tokens paragraph_open, inline, paragraph_close, and the children  *)
(* of the inline token are text tokens only.  A line is blank when it has  *)
(* only spaces and tabs.  A token is [type, children], children being the  *)
(* types of its child tokens (none for a token whose children are null).   *)
(***************************************************************************)
BlankChars == {" ", "\t"}

\* the positions where a line of s starts
LineStarts(s) == {p \in 1..Len(s) : p = 1 \/ s[p - 1] = "\n"}

IsBlankLine(s, p) == \A k \in p..(IndexOfAny(s, p, {"\n"}) - 1) : s[k] \in BlankChars

\* the lines that open a paragraph: not blank, and first or after a blank line
ParagraphStarts(s) ==
    {p \in LineStarts(s) :
        /\ ~IsBlankLine(s, p)
        /\ \A q \in LineStarts(s) :
              (q < p /\ \A r \in LineStarts(s) : ~(q < r /\ r < p)) => IsBlankLine(s, q)}

ParagraphTokens ==
    <<[type |-> "paragraph_open", children |-> <<>>],
      [type |-> "inline", children |-> <<"text">>],
      [type |-> "paragraph_close", children |-> <<>>]>>

RECURSIVE Repeat(_, _)
Repeat(ts, n) == IF n = 0 THEN <<>> ELSE ts \o Repeat(ts, n - 1)

MdParse(s) == Repeat(ParagraphTokens, Cardinality(ParagraphStarts(s)))

(***************************************************************************)
(* containsMarkdown (markdown.js:9-41), as a function of the token stream  *)
(***************************************************************************)
BlockTypes == {"heading_open", "blockquote_open", "bullet_list_open", "ordered_list_open",
               "fence", "hr", "table_open", "code_block"}
ParagraphOnly == 2

\* the loop of lines 19-36 from token i on, with the value of hasFormatting
RECURSIVE scanTokens(_, _, _)
scanTokens(ts, i, hasFormatting) ==
    IF i > Len(ts) THEN hasFormatting
    ELSE LET token == ts[i]
             inlineFormatting ==
                 token.type = "inline" /\ \E k \in 1..Len(token.children) : token.children[k] # "text"
         IN  IF token.type \in BlockTypes THEN TRUE
             ELSE scanTokens(ts, i + 1, hasFormatting \/ inlineFormatting)

\* a slip that counts the three tokens of one paragraph as "just a paragraph"
containsMarkdownThreeTokens(ts) ==
    IF Len(ts) <= 3 THEN scanTokens(ts, 1, FALSE) ELSE Len(ts) > 3

containsMarkdown(ts) ==
    IF Len(ts) <= ParagraphOnly THEN scanTokens(ts, 1, FALSE) ELSE Len(ts) > ParagraphOnly

(***************************************************************************)
(* hasCommonMarkdownPatterns (markdown.js:49-70).  Each pattern is tested  *)
(* with RegExp.test: does it match anywhere in the text.                   *)
(***************************************************************************)
Dot(c) == c \notin LineTerminators

\* the grave accent character U+0060, written by name
Backtick == "grave"

\* ^ under flag m
AtLineStart(s, p) == p = 1 \/ s[p - 1] \in LineTerminators
\* $ under flag m
AtLineEnd(s, p) == p = Len(s) + 1 \/ s[p] \in LineTerminators

\* open .+? close
Delimited(s, open, close) ==
    \E i \in 1..Len(s) :
        /\ HasAt(s, i, open)
        /\ \E j \in (i + Len(open) + 1)..Len(s) :
              /\ HasAt(s, j, close)
              /\ \A k \in (i + Len(open))..(j - 1) : Dot(s[k])

\* \s+.+$ from position q: the white space ends where a character other
\* than a line terminator follows, and .+ runs to the end of that line
SpaceThenContent(s, q) ==
    \E r \in (q + 1)..RunEnd(s, q, WhiteSpace) : r <= Len(s) /\ Dot(s[r])

\* \[.+?\]\(.+?\) at position i
LinkAt(s, i) ==
    /\ HasAt(s, i, <<"[">>)
    /\ \E j \in (i + 2)..Len(s) :
          /\ HasAt(s, j, <<"]", "(">>)
          /\ \A k \in (i + 1)..(j - 1) : Dot(s[k])
          /\ \E e \in (j + 3)..Len(s) :
                /\ s[e] = ")"
                /\ \A k \in (j + 2)..(e - 1) : Dot(s[k])

\* a slip that takes two pipes on a line for a table row
TableRowTwoPipes(s) ==
    \E a \in 1..Len(s) :
        /\ s[a] = "|"
        /\ \E b \in (a + 2)..Len(s) :
              s[b] = "|" /\ \A k \in (a + 1)..(b - 1) : Dot(s[k])

\* pattern 14 (markdown.js:65): a pipe, one or more characters, a pipe, one
\* or more characters, a pipe, all on one line
TableRow(s) ==
    \E a \in 1..Len(s) :
        /\ s[a] = "|"
        /\ \E b \in (a + 2)..Len(s) :
              /\ s[b] = "|"
              /\ \E c \in (b + 2)..Len(s) :
                    s[c] = "|" /\ \A k \in (a + 1)..(c - 1) : Dot(s[k])

PatternCount == 15

\* a slip in the last pattern: -{0,} in place of -{3,}
HorizontalRuleAnyLength(s) ==
    \/ s = <<>>
    \/ \E p \in 1..(Len(s) + 1) : AtLineStart(s, p) /\ AtLineEnd(s, RunEnd(s, p, {"-"}))

\* /^-{3,}$/m
HorizontalRule(s) ==
    \E p \in 1..Len(s) :
        /\ AtLineStart(s, p)
        /\ RunEnd(s, p, {"-"}) - p >= 3
        /\ AtLineEnd(s, RunEnd(s, p, {"-"}))

\* markdownPatterns[i - 1].test(s)
MarkdownPattern(i, s) ==
    CASE i = 1 -> Delimited(s, <<"*", "*">>, <<"*", "*">>)
      [] i = 2 -> Delimited(s, <<"*">>, <<"*">>)
      [] i = 3 -> Delimited(s, <<"_", "_">>, <<"_", "_">>)
      [] i = 4 -> Delimited(s, <<"_">>, <<"_">>)
      [] i = 5 -> Delimited(s, <<"~", "~">>, <<"~", "~">>)
      [] i = 6 -> \E p \in 1..Len(s) :
                     /\ AtLineStart(s, p)
                     /\ s[p] = "#"
                     /\ SpaceThenContent(s, RunEnd(s, p, {"#"}))
      [] i = 7 -> \E p \in 1..Len(s) :
                     /\ AtLineStart(s, p)
                     /\ LET q == RunEnd(s, p, WhiteSpace)
                        IN  /\ q <= Len(s)
                            /\ s[q] \in {"-", "*", "+"}
                            /\ SpaceThenContent(s, q + 1)
      [] i = 8 -> \E p \in 1..Len(s) :
                     /\ AtLineStart(s, p)
                     /\ LET q == RunEnd(s, p, WhiteSpace)
                            d == RunEnd(s, q, Digit)
                        IN  /\ d > q
                            /\ d <= Len(s)
                            /\ s[d] = "."
                            /\ SpaceThenContent(s, d + 1)
      [] i = 9 -> \E p \in 1..Len(s) :
                     /\ AtLineStart(s, p)
                     /\ LET q == RunEnd(s, p, WhiteSpace)
                        IN  /\ q < Len(s)
                            /\ s[q] = ">"
                            /\ Dot(s[q + 1])
      [] i = 10 -> \E a \in 1..Len(s) :
                     /\ s[a] = Backtick
                     /\ \E b \in (a + 2)..Len(s) :
                           s[b] = Backtick /\ \A k \in (a + 1)..(b - 1) : s[k] # Backtick
      [] i = 11 -> \E a \in 1..Len(s) :
                     /\ HasAt(s, a, <<Backtick, Backtick, Backtick>>)
                     /\ \E b \in (a + 3)..Len(s) : HasAt(s, b, <<Backtick, Backtick, Backtick>>)
      [] i = 12 -> \E a \in 1..Len(s) : LinkAt(s, a)
      [] i = 13 -> \E a \in 1..Len(s) : s[a] = "!" /\ LinkAt(s, a + 1)
      [] i = 14 -> TableRow(s)
      [] i = 15 -> HorizontalRule(s)

hasCommonMarkdownPatterns(s) == \E i \in 1..PatternCount : MarkdownPattern(i, s)

(***************************************************************************)
(* detectMarkdown (markdown.js:78-86)                                      *)
(***************************************************************************)
\* a slip that tests the patterns whatever the structural verdict
needsFallbackAlways(h) == TRUE

\* line 82: if (!hasMarkdownStructure)
needsFallback(h) == ~h

\* a slip that returns the structural verdict in the fallback branch
fallbackVerdictDropped(s) == FALSE

\* line 83: return hasCommonMarkdownPatterns(text)
fallbackVerdict(s) == hasCommonMarkdownPatterns(s)

detectMarkdown(s) ==
    LET h == containsMarkdown(MdParse(s))
    IN  IF needsFallback(h) THEN fallbackVerdict(s) ELSE h

(***************************************************************************)
(* The texts the functions are called with                                 *)
(***************************************************************************)
TextFourUrls ==
    <<"h", "t", "t", "p", "s", ":", "/", "/", "a", ".", "c", "o", "m", " ", "h", "t", "t", "p",
      "s", ":", "/", "/", "b", ".", "c", "o", "m", " ", "h", "t", "t", "p", "s", ":", "/", "/",
      "c", ".", "c", "o", "m", " ", "h", "t", "t", "p", "s", ":", "/", "/", "d", ".", "c", "o",
      "m">>
TextParenUrl ==
    <<"(", "h", "t", "t", "p", "s", ":", "/", "/", "e", "x", "a", "m", "p", "l", "e", ".", "c",
      "o", "m", ")">>
TextTwoUrls ==
    <<"s", "e", "e", " ", "h", "t", "t", "p", "s", ":", "/", "/", "e", "x", "a", "m", "p", "l",
      "e", ".", "c", "o", "m", "/", "p", "a", "g", "e", " ", "a", "n", "d", " ", "h", "t", "t",
      "p", "s", ":", "/", "/", "f", "o", "o", ".", "i", "o">>
TextNoUrls == <<"n", "o", " ", "u", "r", "l", "s", " ", "h", "e", "r", "e">>
TextNoScheme == <<"w", "w", "w", ".", "e", ".", "n", "e", "t", " ", "h", "t", "t", "p", ":", "/", "x">>
UrlBadPort == <<"h", "t", "t", "p", "s", ":", "/", "/", "a", ".", "c", "o", "m", ":", "x">>
LabelOpenLink == <<"O", "p", "e", "n", " ", "l", "i", "n", "k">>
FragA == <<"h", "t", "t", "p", "s", ":", "/", "/", "a", ".", "c", "o", "m">>
FragB == <<"h", "t", "t", "p", ":", "/", "/", "w", "w", "w", ".", "b", ".", "i", "o">>
FragCD ==
    <<"h", "t", "t", "p", "s", ":", "/", "/", "c", ".", "d", "e", "v", " ", "H", "T", "T", "P",
      "S", ":", "/", "/", "D", ".", "O", "R", "G", " ">>
TextBadPortThenGood == UrlBadPort \o <<" ">> \o FragB
UrlWithParens ==
    <<"h", "t", "t", "p", "s", ":", "/", "/", "a", ".", "c", "o", "m", "/", "p", "(", "q", ")">>
UrlA == <<"h", "t", "t", "p", "s", ":", "/", "/", "a", ".", "c", "o", "m">>
UrlB == <<"h", "t", "t", "p", "s", ":", "/", "/", "b", ".", "c", "o", "m">>
UrlC == <<"h", "t", "t", "p", "s", ":", "/", "/", "c", ".", "c", "o", "m">>
UrlExample ==
    <<"h", "t", "t", "p", "s", ":", "/", "/", "e", "x", "a", "m", "p", "l", "e", ".", "c", "o",
      "m">>
UrlExamplePage ==
    <<"h", "t", "t", "p", "s", ":", "/", "/", "e", "x", "a", "m", "p", "l", "e", ".", "c", "o",
      "m", "/", "p", "a", "g", "e">>
UrlFoo == <<"h", "t", "t", "p", "s", ":", "/", "/", "f", "o", "o", ".", "i", "o">>
LabelExample == <<"O", "p", "e", "n", " ", "e", "x", "a", "m", "p", "l", "e">>
LabelFoo == <<"O", "p", "e", "n", " ", "f", "o", "o">>
TextPlain ==
    <<"p", "l", "a", "i", "n", " ", "t", "e", "x", "t", ",", " ", "n", "o", " ", "f", "o", "r",
      "m", "a", "t", "t", "i", "n", "g">>
TextBold == <<"*", "*", "b", "o", "l", "d", "*", "*">>
TextHeading == <<"#", " ", "H", "e", "a", "d", "i", "n", "g", "\n", "b", "o", "d", "y">>
TextTable ==
    <<"a", " ", "|", " ", "b", " ", "|", " ", "c", "\n", "-", "-", "|", "-", "-", "|", "-",
      "-">>

\* a markdown link [l](u) followed by the text t
LinkText(u, t) == <<"[", "l", "]", "(">> \o u \o <<")">> \o t
LinkUrls == {FragA, FragB, UrlWithParens}
LinkTails == {<<>>, <<" ", "x">>, <<")">>, <<".">>}
LinkTexts == {LinkText(u, t) : u \in LinkUrls, t \in LinkTails}

TextThreePipes == <<"|", "a", "|", "b", "|">>
TextAB == FragA \o <<" ">> \o FragB
MaxFrags == 3
MaxMdFrags == 3
MaxTokens == 3

UrlFragments ==
    {FragA, FragB, FragCD, <<" ">>, <<"(">>, <<")">>, <<"/", "p">>, <<":", "x">>}

ActionTexts ==
    {TextFourUrls, TextParenUrl, TextTwoUrls, TextNoUrls, TextNoScheme,
     TextBadPortThenGood} \cup LinkTexts
        \cup {Flatten(fs) : fs \in SeqsUpTo(UrlFragments, MaxFrags)}

MdFragments ==
    {<<"x">>, <<" ">>, <<"\n">>, <<"*">>, <<"#">>, <<"-">>, <<"|">>, <<"_">>, <<Backtick>>}

MdTexts ==
    {TextPlain, TextBold, TextHeading, TextTable}
        \cup {Flatten(fs) : fs \in SeqsUpTo(MdFragments, MaxMdFrags)}

\* one text for each of the fifteen patterns, in the order of the list
PatternTexts ==
    {<<"*", "*", "b", "*", "*">>,
     <<"*", "i", "*">>,
     <<"_", "_", "b", "_", "_">>,
     <<"_", "i", "_">>,
     <<"~", "~", "s", "~", "~">>,
     <<"#", " ", "h">>,
     <<"-", " ", "x">>,
     <<"1", ".", " ", "x">>,
     <<">", " ", "q">>,
     <<Backtick, "c", Backtick>>,
     <<Backtick, Backtick, Backtick, "x", Backtick, Backtick, Backtick>>,
     <<"[", "a", "]", "(", "b", ")">>,
     <<"!", "[", "a", "]", "(", "b", ")">>,
     <<"|", "a", "|", "b", "|">>,
     <<"-", "-", "-">>}

StageTexts == {<<>>, TextPlain, TextBold, TextHeading, TextTable} \cup PatternTexts

\* the token streams a parser with more rules enabled can return
ChildStreams == {<<"text">>, <<"strong_open", "text", "strong_close">>}
TokenKinds ==
    {[type |-> t, children |-> <<>>] : t \in BlockTypes \cup {"paragraph_open", "paragraph_close"}}
        \cup {[type |-> "inline", children |-> c] : c \in ChildStreams}
TokenStreams == SeqsUpTo(TokenKinds, MaxTokens)

(***************************************************************************)
(* The MCP server (src/src/index.ts).  An optional value is <<>> when it   *)
(* is undefined and <<v>> when it is v.                                    *)
(***************************************************************************)
Undefined == <<>>
Some(v) == <<v>>

\* x || d for an optional string x
OrElse(x, d) == IF x = Undefined THEN d ELSE IF x[1] = <<>> THEN d ELSE x[1]
\* an optional string that is neither undefined nor empty
Truthy(x) == x # Undefined /\ x[1] # <<>>

NtfyShUrl == <<"h", "t", "t", "p", "s", ":", "/", "/", "n", "t", "f", "y", ".", "s", "h">>
OwnServerUrl == <<"h", "t", "t", "p", "s", ":", "/", "/", "m", "y", ".", "s", "r", "v", "/">>
OtherServerUrl == <<"h", "t", "t", "p", "s", ":", "/", "/", "o", ".", "s", "r", "v">>
TopicT == <<"t">>
TopicO == <<"o">>
EnvToken == <<"e", "n", "v">>
PromptToken == <<"a", "s", "k">>
ArgToken == <<"a", "r", "g">>
TrueText == <<"t", "r", "u", "e">>
FalseText == <<"f", "a", "l", "s", "e">>

\* what process.env can hold
EnvTopics == {Undefined, Some(<<>>), Some(TopicT)}
EnvUrls == {Undefined, Some(OwnServerUrl)}
EnvTokens == {Undefined, Some(EnvToken)}
EnvProtected == {Undefined, Some(TrueText), Some(FalseText)}
\* what the password prompt can resolve to (response.token)
PromptReplies == {Undefined, Some(<<>>), Some(PromptToken)}

\* a slip that takes every value of PROTECTED_TOPIC for "protected"
IsProtectedWhenSet(v) == v # Undefined

\* index.ts:27: process.env.PROTECTED_TOPIC === "true" || false
IsProtected(v) == v = Some(TrueText)

NotStarted ==
    [state |-> "initializing", exitCode |-> Undefined, prompted |-> FALSE, prompt |-> "none",
     server |-> FALSE, tools |-> {}, connected |-> FALSE]
NoCall == [tool |-> "none", pc |-> "idle"]
NoToolResult == [isError |-> FALSE, text |-> <<>>, more |-> <<>>]

\* index.ts:20-27: the module-level configuration read from the environment,
\* before initializeServer runs
ModuleLoaded ==
    /\ NTFY_TOPIC = env.NTFY_TOPIC
    /\ NTFY_URL = OrElse(env.NTFY_URL, NtfyShUrl)
    /\ NTFY_TOKEN = OrElse(env.NTFY_TOKEN, <<>>)
    /\ PROTECTED_TOPIC = IsProtected(env.PROTECTED_TOPIC)
    /\ proc = NotStarted
    /\ call = NoCall
    /\ requests = <<>>
    /\ toolResult = NoToolResult

(***************************************************************************)
(* The ntfy_me tool (index.ts:73-190): texts, JSON and request             *)
(***************************************************************************)
BearerPrefix == <<"B", "e", "a", "r", "e", "r", " ">>
SentPrefix ==
    <<"N", "o", "t", "i", "f", "i", "c", "a", "t", "i", "o", "n", " ", "s", "e", "n", "t", " ",
      "s", "u", "c", "c", "e", "s", "s", "f", "u", "l", "l", "y", " ", "t", "o", " ">>
FailedToSendPrefix ==
    <<"F", "a", "i", "l", "e", "d", " ", "t", "o", " ", "s", "e", "n", "d", " ", "n", "t", "f",
      "y", " ", "n", "o", "t", "i", "f", "i", "c", "a", "t", "i", "o", "n", ":", " ">>
AuthFailedSendingPrefix ==
    <<"A", "u", "t", "h", "e", "n", "t", "i", "c", "a", "t", "i", "o", "n", " ", "f", "a", "i",
      "l", "e", "d", " ", "w", "h", "e", "n", " ", "s", "e", "n", "d", "i", "n", "g", " ", "n",
      "o", "t", "i", "f", "i", "c", "a", "t", "i", "o", "n", " ", "t", "o", " ">>
RequiresToken ==
    <<"T", "h", "i", "s", " ", "n", "t", "f", "y", " ", "t", "o", "p", "i", "c", " ", "r", "e",
      "q", "u", "i", "r", "e", "s", " ", "a", "n", " ", "a", "c", "c", "e", "s", "s", " ", "t",
      "o", "k", "e", "n", ".">>
HowToProvideToken ==
    <<" ", "P", "l", "e", "a", "s", "e", " ", "p", "r", "o", "v", "i", "d", "e", " ", "a", " ",
      "t", "o", "k", "e", "n", " ", "u", "s", "i", "n", "g", " ", "t", "h", "e", " ", "'", "a",
      "c", "c", "e", "s", "s", "T", "o", "k", "e", "n", "'", " ", "p", "a", "r", "a", "m", "e",
      "t", "e", "r", " ", "o", "r", " ", "s", "e", "t", " ", "t", "h", "e", " ", "N", "T", "F",
      "Y", "_", "T", "O", "K", "E", "N", " ", "e", "n", "v", "i", "r", "o", "n", "m", "e", "n",
      "t", " ", "v", "a", "r", "i", "a", "b", "l", "e", ".">>
SendStatusPrefix ==
    <<"F", "a", "i", "l", "e", "d", " ", "t", "o", " ", "s", "e", "n", "d", " ", "n", "t", "f",
      "y", " ", "n", "o", "t", "i", "f", "i", "c", "a", "t", "i", "o", "n", ".", " ", "S", "t",
      "a", "t", "u", "s", " ", "c", "o", "d", "e", ":", " ">>
MessageInfix == <<",", " ", "M", "e", "s", "s", "a", "g", "e", ":", " ">>

\* template literal ${n} for a natural number
RECURSIVE NumberText(_)
NumberText(n) ==
    IF n < 10 THEN <<DigitSeq[n + 1]>> ELSE NumberText(n \div 10) \o <<DigitSeq[(n % 10) + 1]>>

\* array.join(sep)
RECURSIVE Join(_, _)
Join(ss, sep) ==
    IF ss = <<>> THEN <<>>
    ELSE IF Len(ss) = 1 THEN ss[1]
    ELSE ss[1] \o sep \o Join(Tail(ss), sep)

\* JSON.stringify of a string: quotes, with quote, backslash and newline escaped
JsonChar(c) ==
    IF c = "\"" THEN <<"\\", "\"">>
    ELSE IF c = "\\" THEN <<"\\", "\\">>
    ELSE IF c = "\n" THEN <<"\\", "n">>
    ELSE <<c>>
JsonString(s) == <<"\"">> \o Flatten([k \in 1..Len(s) |-> JsonChar(s[k])]) \o <<"\"">>
JsonActionKey ==
    <<"{", "\"", "a", "c", "t", "i", "o", "n", "\"", ":", "\"", "v", "i", "e", "w", "\"", ",",
      "\"", "l", "a", "b", "e", "l", "\"", ":">>
JsonUrlKey == <<",", "\"", "u", "r", "l", "\"", ":">>
JsonClearKey == <<",", "\"", "c", "l", "e", "a", "r", "\"", ":">>

\* JSON.stringify of one view action, keys in the order they were set
JsonAction(a) ==
    JsonActionKey \o JsonString(a.label) \o JsonUrlKey \o JsonString(a.url)
        \o JsonClearKey \o (IF a.clear THEN TrueText ELSE FalseText) \o <<"}">>
\* JSON.stringify(viewActions) (index.ts:136)
JsonStringify(as) ==
    <<"[">> \o Join([k \in 1..Len(as) |-> JsonAction(as[k])], <<",">>) \o <<"]">>

\* response.ok
Ok(status) == status >= 200 /\ status <= 299
AuthStatuses == {401, 403}
\* the status codes the ntfy server answers with
Statuses == {200, 401, 403, 404, 500}

\* a header value node-fetch accepts: no line break in it
LegalHeaderValue(v) == \A k \in 1..Len(v) : v[k] \notin {"\n", "\r"}
LegalHeaders(h) ==
    \A name \in DOMAIN h : h[name] # Undefined => LegalHeaderValue(h[name][1])

\* index.ts:148 and messages.ts:149: fetch sends the request only for an
\* absolute http(s) URL and legal header values; otherwise it throws a TypeError
\* before anything is sent
Sendable(endpoint, headers) == UrlParses(endpoint) /\ LegalHeaders(headers)

\* a slip that lets an empty actions array fall through to the extraction
chooseActionsNonEmpty(given, taskSummary) ==
    IF given # Undefined /\ given # Some(<<>>) THEN given[1]
    ELSE processActions(taskSummary)

\* index.ts:119: actions || processActions(taskSummary); an array, even an
\* empty one, is truthy
chooseActions(given, taskSummary) ==
    IF given # Undefined THEN given[1] ELSE processActions(taskSummary)

\* a slip that writes markdown || detectMarkdown(taskSummary)
chooseMarkdownOr(markdown, taskSummary) ==
    IF markdown = Some(TRUE) THEN TRUE ELSE detectMarkdown(taskSummary)

\* index.ts:122: markdown !== undefined ? markdown : detectMarkdown(taskSummary)
chooseMarkdown(markdown, taskSummary) ==
    IF markdown # Undefined THEN markdown[1] ELSE detectMarkdown(taskSummary)

\* index.ts:100: url.endsWith("/") ? url.slice(0, -1) : url
BaseUrl(url) == IF EndsWith(url, <<"/">>) THEN DropLast(url) ELSE url

\* a slip that sends a processed message: the first URL found is cut out of
\* the body once it has become an action
notificationBodyProcessed(taskSummary) ==
    LET found == MatchAll(taskSummary)
    IN  IF found = <<>> THEN taskSummary
        ELSE SubSeq(taskSummary, 1, found[1].index)
                 \o SubSeq(taskSummary, found[1].index + Len(found[1].m) + 1, Len(taskSummary))

\* index.ts:148-150: body: taskSummary
notificationBody(taskSummary) == taskSummary

\* index.ts:95-146: the locals of the handler up to the call of fetch
PrepareNtfyMe(args) ==
    LET url == OrElse(args.ntfyUrl, NTFY_URL)
        topic == OrElse(args.ntfyTopic, OrElse(NTFY_TOPIC, <<>>))
        token == OrElse(args.accessToken, NTFY_TOKEN)
        endpoint == BaseUrl(url) \o <<"/">> \o topic
        viewActions == chooseActions(args.actions, args.taskSummary)
        shouldUseMarkdown == chooseMarkdown(args.markdown, args.taskSummary)
    IN  [url |-> url, topic |-> topic, token |-> token,
         headers |->
             [Title |-> Some(args.taskTitle),
              Authorization |-> IF token # <<>> THEN Some(BearerPrefix \o token) ELSE Undefined,
              Priority |-> IF Truthy(args.priority) THEN args.priority ELSE Undefined,
              XMarkdown |-> IF shouldUseMarkdown THEN Some(TrueText) ELSE Undefined,
              Tags |-> IF args.tags # Undefined /\ Len(args.tags[1]) > 0
                       THEN Some(Join(args.tags[1], <<",">>)) ELSE Undefined,
              XActions |-> IF Len(viewActions) > 0
                           THEN Some(JsonStringify(viewActions)) ELSE Undefined],
         viewActions |-> viewActions,
         shouldUseMarkdown |-> shouldUseMarkdown,
         cleanEndpoint |-> Trim(endpoint)]

\* index.ts:157-170: the message of the error thrown for a status that is not ok
SendFailure(status, url, topic, body) ==
    IF status \in AuthStatuses
    THEN AuthFailedSendingPrefix \o Hostname(url) \o <<"/">> \o topic \o <<".", " ">>
             \o RequiresToken \o HowToProvideToken
    ELSE SendStatusPrefix \o NumberText(status) \o MessageInfix \o body

\* the arguments of the tool calls
TitleDone == <<"D", "o", "n", "e">>
TitleTwoLines == <<"a", "\n", "b">>
PriorityHigh == <<"h", "i", "g", "h">>
ErrorBody == <<"n", "o">>
NetworkMessage == <<"r", "e", "q", "u", "e", "s", "t", " ", "f", "a", "i", "l", "e", "d">>

CustomAction ==
    [action |-> "view", label |-> <<"G", "o">>, url |-> OtherServerUrl, clear |-> FALSE]
SummaryTexts == {<<>>, TextBold, TextAB, TextFourUrls}
MarkdownArgs == {Undefined, Some(TRUE), Some(FALSE)}
ActionsArgs ==
    {Undefined, Some(<<>>), Some(<<CustomAction>>),
     Some(<<CustomAction, CustomAction, CustomAction, CustomAction>>)}
\* priority and tags
Decorations ==
    {<<Undefined, Undefined>>, <<Some(PriorityHigh), Some(<<<<"a">>, <<"b">>>>)>>,
     <<Undefined, Some(<<>>)>>}
\* ntfyUrl, ntfyTopic and accessToken
\* an ntfyUrl without a scheme: the schema admits any string
MalformedUrl == <<"o", ".", "s", "r", "v">>
Destinations ==
    {<<Undefined, Undefined, Undefined>>, <<Some(OtherServerUrl), Undefined, Undefined>>,
     <<Undefined, Some(TopicO), Some(ArgToken)>>, <<Some(OtherServerUrl), Some(TopicO), Some(<<>>)>>,
     <<Some(MalformedUrl), Undefined, Undefined>>}
NtfyMeArgs ==
    {[taskTitle |-> title, taskSummary |-> summary, ntfyUrl |-> dest[1], ntfyTopic |-> dest[2],
      accessToken |-> dest[3], priority |-> dec[1], tags |-> dec[2], markdown |-> md,
      actions |-> acts] :
        title \in {TitleDone, TitleTwoLines}, summary \in SummaryTexts, dest \in Destinations,
        dec \in Decorations, md \in MarkdownArgs, acts \in ActionsArgs}

(***************************************************************************)
(* The ntfy_me_fetch tool (index.ts:193-270) and fetchMessages             *)
(* (src/src/utils/messages.ts:88-196)                                      *)
(***************************************************************************)
FailedToFetchPrefix ==
    <<"F", "a", "i", "l", "e", "d", " ", "t", "o", " ", "f", "e", "t", "c", "h", " ", "n", "t",
      "f", "y", " ", "m", "e", "s", "s", "a", "g", "e", "s", ":", " ">>
AuthFailedFetchingPrefix ==
    <<"A", "u", "t", "h", "e", "n", "t", "i", "c", "a", "t", "i", "o", "n", " ", "f", "a", "i",
      "l", "e", "d", " ", "w", "h", "e", "n", " ", "f", "e", "t", "c", "h", "i", "n", "g", " ",
      "m", "e", "s", "s", "a", "g", "e", "s", " ", "f", "r", "o", "m", " ">>
FetchStatusPrefix ==
    <<"F", "a", "i", "l", "e", "d", " ", "t", "o", " ", "f", "e", "t", "c", "h", " ", "n", "t",
      "f", "y", " ", "m", "e", "s", "s", "a", "g", "e", "s", ".", " ", "S", "t", "a", "t", "u",
      "s", " ", "c", "o", "d", "e", ":", " ">>
NoMessagesPrefix ==
    <<"N", "o", " ", "m", "e", "s", "s", "a", "g", "e", "s", " ", "f", "o", "u", "n", "d", " ",
      "i", "n", " ", "t", "o", "p", "i", "c", " ">>
FetchedPrefix ==
    <<"S", "u", "c", "c", "e", "s", "s", "f", "u", "l", "l", "y", " ", "f", "e", "t", "c", "h",
      "e", "d", " ">>
MessagesFrom ==
    <<" ", "m", "e", "s", "s", "a", "g", "e", "(", "s", ")", " ", "f", "r", "o", "m", " ">>
TopicsSuffix == <<" ", "t", "o", "p", "i", "c", "(", "s", ")">>
JsonPollPath == <<"/", "j", "s", "o", "n", "?", "p", "o", "l", "l", "=", "1">>
SinceParam == <<"&", "s", "i", "n", "c", "e", "=">>
TenMinutes == <<"1", "0", "m">>

\* a value of the parameter since: a string or a number, with its text
SinceString(s) == [kind |-> "string", text |-> s]
SinceNumber(s) == [kind |-> "number", text |-> s]
\* index.ts:215: since === null ? undefined : (since || "10m"); the schema
\* admits a string or a number, so since is never null; "" and 0 are falsy
SinceSetting(since) ==
    IF since = Undefined THEN Some(SinceString(TenMinutes))
    ELSE IF since[1].text = <<>> \/ (since[1].kind = "number" /\ since[1].text = <<"0">>)
         THEN Some(SinceString(TenMinutes))
         ELSE since

\* a filter value: a string, or an array of strings
FilterString(s) == [isArray |-> FALSE, items |-> <<s>>]
FilterArray(ss) == [isArray |-> TRUE, items |-> ss]
\* if (options.priorities): an array is truthy, a string when not empty
FilterGiven(f) == f # Undefined /\ (f[1].isArray \/ f[1].items[1] # <<>>)
\* messages.ts:117-130: Array.isArray(v) ? v.join(',') : v
FilterValue(f) == Join(f[1].items, <<",">>)

\* messages.ts:91-130: the request fetchMessages builds
PrepareFetch(args) ==
    LET url == OrElse(args.ntfyUrl, NTFY_URL)
        topic == OrElse(args.ntfyTopic, OrElse(NTFY_TOPIC, <<>>))
        token == OrElse(args.accessToken, NTFY_TOKEN)
        sinceSetting == SinceSetting(args.since)
        endpoint == BaseUrl(url) \o <<"/">> \o topic \o JsonPollPath
                        \o (IF sinceSetting # Undefined
                            THEN SinceParam \o sinceSetting[1].text ELSE <<>>)
    IN  [url |-> url, topic |-> topic, token |-> token, sinceSetting |-> sinceSetting,
         endpoint |-> endpoint,
         headers |->
             [Authorization |-> IF token # <<>> THEN Some(BearerPrefix \o token) ELSE Undefined,
              XID |-> IF Truthy(args.messageId) THEN args.messageId ELSE Undefined,
              XMessage |-> IF Truthy(args.messageText) THEN args.messageText ELSE Undefined,
              XTitle |-> IF Truthy(args.messageTitle) THEN args.messageTitle ELSE Undefined,
              XPriority |-> IF FilterGiven(args.priorities)
                            THEN Some(FilterValue(args.priorities)) ELSE Undefined,
              XTags |-> IF FilterGiven(args.tags)
                        THEN Some(FilterValue(args.tags)) ELSE Undefined]]

\* messages.ts:151-164: the message of the error thrown for a status that is not ok
FetchFailure(status, topic, body) ==
    IF status \in AuthStatuses
    THEN AuthFailedFetchingPrefix \o topic \o <<".", " ">> \o RequiresToken
    ELSE FetchStatusPrefix \o NumberText(status) \o MessageInfix \o body

\* the lines a response body is made of
LineT1 ==
    <<"{", "\"", "i", "d", "\"", ":", "\"", "1", "\"", ",", "\"", "t", "o", "p", "i", "c", "\"",
      ":", "\"", "t", "\"", "}">>
LineO2 ==
    <<"{", "\"", "i", "d", "\"", ":", "\"", "2", "\"", ",", "\"", "t", "o", "p", "i", "c", "\"",
      ":", "\"", "o", "\"", "}">>
LineT3 ==
    <<"{", "\"", "i", "d", "\"", ":", "\"", "3", "\"", ",", "\"", "t", "o", "p", "i", "c", "\"",
      ":", "\"", "t", "\"", "}">>
\* a topic named like a member every JavaScript object inherits
TopicCtor == <<"c", "o", "n", "s", "t", "r", "u", "c", "t", "o", "r">>
LineCtor ==
    <<"{", "\"", "i", "d", "\"", ":", "\"", "4", "\"", ",", "\"", "t", "o", "p", "i", "c", "\"",
      ":", "\"", "c", "o", "n", "s", "t", "r", "u", "c", "t", "o", "r", "\"", "}">>
LineBad == <<"{", "o", "o", "p", "s">>
LineBlank == <<" ">>
LineEmpty == <<>>
Lines == {LineT1, LineO2, LineT3, LineCtor, LineBad, LineBlank, LineEmpty}

\* JSON.parse(line) on these lines: the message, or undefined when it throws
JsonParse(line) ==
    IF line = LineT1 THEN Some([id |-> <<"1">>, topic |-> TopicT])
    ELSE IF line = LineO2 THEN Some([id |-> <<"2">>, topic |-> TopicO])
    ELSE IF line = LineT3 THEN Some([id |-> <<"3">>, topic |-> TopicT])
    ELSE IF line = LineCtor THEN Some([id |-> <<"4">>, topic |-> TopicCtor])
    ELSE Undefined

\* rawResponse.split("\n")
RECURSIVE Split(_)
Split(s) ==
    LET q == IndexOfAny(s, 1, {"\n"})
    IN  IF q > Len(s) THEN <<s>>
        ELSE <<SubSeq(s, 1, q - 1)>> \o Split(SubSeq(s, q + 1, Len(s)))

\* messages.ts:171-182: the lines that are not blank, parsed, without the
\* ones that do not parse
RECURSIVE ParseLines(_)
ParseLines(ls) ==
    IF ls = <<>> THEN <<>>
    ELSE IF Trim(Head(ls)) = <<>> \/ JsonParse(Head(ls)) = Undefined THEN ParseLines(Tail(ls))
    ELSE <<JsonParse(Head(ls))[1]>> \o ParseLines(Tail(ls))

\* messages.ts:185-190: one more message put under its topic; the record
\* keeps its keys in the order they were added
AddToTopic(records, data) ==
    IF \E k \in 1..Len(records) : records[k].topic = data.topic
    THEN [k \in 1..Len(records) |->
            IF records[k].topic = data.topic
            THEN [records[k] EXCEPT !.messages = Append(@, data)]
            ELSE records[k]]
    ELSE Append(records, [topic |-> data.topic, messages |-> <<data>>])

\* messages.ts:184-189: messageRecords is a plain object, so messageRecords[topic]
\* finds the members inherited from Object.prototype as well; for such a
\* topic the value is truthy, no array is created, and push is not a function
InheritedKeys == {TopicCtor}
PushNotAFunction ==
    <<"m", "e", "s", "s", "a", "g", "e", "R", "e", "c", "o", "r", "d", "s", "[", "t", "o", "p",
      "i", "c", "]", ".", "p", "u", "s", "h", " ", "i", "s", " ", "n", "o", "t", " ", "a", " ",
      "f", "u", "n", "c", "t", "i", "o", "n">>
GroupingThrows(msgs) == \E k \in 1..Len(msgs) : msgs[k].topic \in InheritedKeys

RECURSIVE GroupByTopic(_, _)
GroupByTopic(records, msgs) ==
    IF msgs = <<>> THEN records
    ELSE GroupByTopic(AddToTopic(records, Head(msgs)), Tail(msgs))

\* a slip that gives up at the first line that is blank or does not parse
MessageRecordsUntilInvalid(rawResponse) ==
    IF rawResponse = <<>> THEN Undefined
    ELSE LET ls == Split(rawResponse)
             invalid == {k \in 1..Len(ls) :
                            Trim(ls[k]) = <<>> \/ JsonParse(ls[k]) = Undefined}
             stop == IF invalid = {} THEN Len(ls) + 1
                     ELSE CHOOSE k \in invalid : \A j \in invalid : k <= j
         IN  Some(GroupByTopic(<<>>, ParseLines(SubSeq(ls, 1, stop - 1))))

\* messages.ts:167-192: null for an empty body, else the record of topics
MessageRecords(rawResponse) ==
    IF rawResponse = <<>> THEN Undefined
    ELSE Some(GroupByTopic(<<>>, ParseLines(Split(rawResponse))))

RECURSIVE SumLengths(_)
SumLengths(records) ==
    IF records = <<>> THEN 0 ELSE Len(Head(records).messages) + SumLengths(Tail(records))

\* index.ts:230-257: the result of the tool for what fetchMessages returned
FetchResult(messageRecords, topic) ==
    IF messageRecords = Undefined
    THEN [isError |-> FALSE, text |-> NoMessagesPrefix \o topic, more |-> <<>>]
    ELSE [isError |-> FALSE,
          text |-> FetchedPrefix \o NumberText(SumLengths(messageRecords[1])) \o MessagesFrom
                       \o NumberText(Len(messageRecords[1])) \o TopicsSuffix,
          more |-> messageRecords[1]]

MaxLines == 2
\* a body with valid lines before and after an invalid and a blank one
BodyValidAroundInvalid == Join(<<LineT1, LineBad, LineBlank, LineT3, LineO2>>, <<"\n">>)
Bodies == {Join(ls, <<"\n">>) : ls \in SeqsUpTo(Lines, MaxLines)} \cup {BodyValidAroundInvalid}

SinceArgs == {Undefined, Some(SinceString(<<"1", "h">>)), Some(SinceNumber(<<"0">>))}
\* messageId, messageText, messageTitle, priorities and tags
FilterArgs ==
    {<<Undefined, Undefined, Undefined, Undefined, Undefined>>,
     <<Some(<<"1">>), Some(TitleDone), Some(TitleDone), Some(FilterString(PriorityHigh)),
       Some(FilterArray(<<<<"a">>, <<"b">>>>))>>,
     <<Some(<<>>), Some(<<>>), Some(TitleTwoLines), Some(FilterArray(<<>>)),
       Some(FilterString(<<>>))>>}
FetchArgs ==
    {[ntfyUrl |-> dest[1], ntfyTopic |-> dest[2], accessToken |-> dest[3], since |-> since,
      messageId |-> f[1], messageText |-> f[2], messageTitle |-> f[3], priorities |-> f[4],
      tags |-> f[5]] :
        dest \in Destinations, since \in SinceArgs, f \in FilterArgs}

(***************************************************************************)
(* Callers of the two functions.  JavaScript runs each call to completion; *)
(* here the statements of different callers interleave freely, which       *)
(* includes every order the run-time can produce.                          *)
(***************************************************************************)
MaxCallers == 2

CallTexts == {TextAB, TextBold, <<>>}

NoResult == [actions |-> <<>>, formatted |-> FALSE]
IdleCaller ==
    [fn |-> "none", text |-> <<>>, pc |-> "idle", shared |-> FALSE, scanIndex |-> 0,
     urlMatches |-> <<>>, result |-> NoResult]

\* a slip that runs the exec loop on URL_PATTERN itself
ScannedRegExpGlobal(g) == [shared |-> TRUE, lastIndex |-> g]

\* actions.ts:39: the regular expression the matches are read from.  new
\* RegExp(URL_PATTERN) is a new object with lastIndex 0, and matchAll runs
\* its exec loop on a clone of that; g, the lastIndex of URL_PATTERN, is
\* neither read nor written.
ScannedRegExp(g) == [shared |-> FALSE, lastIndex |-> 0]

(***************************************************************************)
(* The state machine: one call of processActions or of detectMarkdown,     *)
(* statement by statement                                                  *)
(***************************************************************************)
Init ==
    /\ fn = "none"
    /\ pc = "idle"
    /\ text = <<>>
    /\ urlMatches = <<>>
    /\ actionUrls = <<>>
    /\ actions = <<>>
    /\ tokens = <<>>
    /\ hasMarkdownStructure = FALSE
    /\ patternsTested = FALSE
    /\ result = FALSE
    /\ callers = [c \in 1..MaxCallers |-> IdleCaller]
    /\ lastIndex = 0
    /\ returned = {}
    /\ env = [NTFY_TOPIC |-> Undefined, NTFY_URL |-> Undefined, NTFY_TOKEN |-> Undefined,
              PROTECTED_TOPIC |-> Undefined]
    /\ ModuleLoaded

\* processActions(text) is called
CallProcessActions ==
    /\ pc = "idle"
    /\ \E t \in ActionTexts : text' = t
    /\ fn' = "processActions"
    /\ pc' = "matchAll"
    /\ UNCHANGED <<actionVars, detectVars>>
    /\ UNCHANGED callVars
    /\ UNCHANGED serverVars

\* actions.ts:39-40
MatchAllUrls ==
    /\ fn = "processActions" /\ pc = "matchAll"
    /\ urlMatches' = MatchAll(text)
    /\ actions' = <<>>
    /\ pc' = "checkEmpty"
    /\ UNCHANGED <<fn, text, actionUrls, detectVars>>
    /\ UNCHANGED callVars
    /\ UNCHANGED serverVars

\* actions.ts:42-44
ReturnNoMatches ==
    /\ fn = "processActions" /\ pc = "checkEmpty"
    /\ Len(urlMatches) = 0
    /\ pc' = "returned"
    /\ UNCHANGED <<fn, text, actionVars, detectVars>>
    /\ UNCHANGED callVars
    /\ UNCHANGED serverVars

\* actions.ts:47-49
SliceAndClean ==
    /\ fn = "processActions" /\ pc = "checkEmpty"
    /\ Len(urlMatches) # 0
    /\ actionUrls' = mapCleanUrl(sliceFirst(urlMatches))
    /\ pc' = "loop"
    /\ UNCHANGED <<fn, text, urlMatches, actions, detectVars>>
    /\ UNCHANGED callVars
    /\ UNCHANGED serverVars

\* actions.ts:51-66, one iteration
PushAction ==
    /\ fn = "processActions" /\ pc = "loop"
    /\ Len(actions) < Len(actionUrls)
    /\ actions' = Append(actions, ViewAction(actionUrls[Len(actions) + 1]))
    /\ UNCHANGED <<fn, pc, text, urlMatches, actionUrls, detectVars>>
    /\ UNCHANGED callVars
    /\ UNCHANGED serverVars

\* actions.ts:68
ReturnActions ==
    /\ fn = "processActions" /\ pc = "loop"
    /\ Len(actions) = Len(actionUrls)
    /\ pc' = "returned"
    /\ UNCHANGED <<fn, text, actionVars, detectVars>>
    /\ UNCHANGED callVars
    /\ UNCHANGED serverVars

\* detectMarkdown(text) is called
CallDetectMarkdown ==
    /\ pc = "idle"
    /\ \E t \in MdTexts : text' = t
    /\ fn' = "detectMarkdown"
    /\ pc' = "parse"
    /\ UNCHANGED <<actionVars, detectVars>>
    /\ UNCHANGED callVars
    /\ UNCHANGED serverVars

\* markdown.js:11-13 with the parser of the preset "zero"
Parse ==
    /\ fn = "detectMarkdown" /\ pc = "parse"
    /\ tokens' = MdParse(text)
    /\ pc' = "inspect"
    /\ UNCHANGED <<fn, text, actionVars, hasMarkdownStructure, patternsTested, result>>
    /\ UNCHANGED callVars
    /\ UNCHANGED serverVars

\* markdown.js:16-40 and 80
Inspect ==
    /\ fn = "detectMarkdown" /\ pc = "inspect"
    /\ hasMarkdownStructure' = containsMarkdown(tokens)
    /\ pc' = "combine"
    /\ UNCHANGED <<fn, text, actionVars, tokens, patternsTested, result>>
    /\ UNCHANGED callVars
    /\ UNCHANGED serverVars

\* markdown.js:82-84
Fallback ==
    /\ fn = "detectMarkdown" /\ pc = "combine"
    /\ needsFallback(hasMarkdownStructure)
    /\ patternsTested' = TRUE
    /\ result' = fallbackVerdict(text)
    /\ pc' = "returned"
    /\ UNCHANGED <<fn, text, actionVars, tokens, hasMarkdownStructure>>
    /\ UNCHANGED callVars
    /\ UNCHANGED serverVars

\* markdown.js:85
ReturnStructure ==
    /\ fn = "detectMarkdown" /\ pc = "combine"
    /\ ~needsFallback(hasMarkdownStructure)
    /\ result' = hasMarkdownStructure
    /\ pc' = "returned"
    /\ UNCHANGED <<fn, text, actionVars, tokens, hasMarkdownStructure, patternsTested>>
    /\ UNCHANGED callVars
    /\ UNCHANGED serverVars

Next ==
    \/ CallProcessActions
    \/ MatchAllUrls
    \/ ReturnNoMatches
    \/ SliceAndClean
    \/ PushAction
    \/ ReturnActions
    \/ CallDetectMarkdown
    \/ Parse
    \/ Inspect
    \/ Fallback
    \/ ReturnStructure

Spec == Init /\ [][Next]_vars

(***************************************************************************)
(* The two stages of detectMarkdown with the parser left open: md.parse    *)
(* returns some token stream or throws                                     *)
(***************************************************************************)
CallDetectStages ==
    /\ pc = "idle"
    /\ \E t \in StageTexts : text' = t
    /\ fn' = "detectMarkdown"
    /\ pc' = "parse"
    /\ UNCHANGED <<actionVars, detectVars>>
    /\ UNCHANGED callVars
    /\ UNCHANGED serverVars

\* markdown.js:13, md.parse returns
ParseReturns ==
    /\ fn = "detectMarkdown" /\ pc = "parse"
    /\ \E ts \in TokenStreams : tokens' = ts
    /\ pc' = "inspect"
    /\ UNCHANGED <<fn, text, actionVars, hasMarkdownStructure, patternsTested, result>>
    /\ UNCHANGED callVars
    /\ UNCHANGED serverVars

\* markdown.js:13, md.parse throws: neither containsMarkdown nor
\* detectMarkdown (line 80) has a handler, the exception reaches the caller
ParseThrows ==
    /\ fn = "detectMarkdown" /\ pc = "parse"
    /\ pc' = "threw"
    /\ UNCHANGED <<fn, text, actionVars, detectVars>>
    /\ UNCHANGED callVars
    /\ UNCHANGED serverVars

NextStages ==
    \/ CallDetectStages
    \/ ParseReturns
    \/ ParseThrows
    \/ Inspect
    \/ Fallback
    \/ ReturnStructure

SpecStages == Init /\ [][NextStages]_vars

(***************************************************************************)
(* Repeated and overlapping calls                                          *)
(***************************************************************************)
\* the values of the functions on the texts of the calls, tabulated
ProcessActionsOf == [t \in CallTexts |-> processActions(t)]
DetectMarkdownOf == [t \in CallTexts |-> detectMarkdown(t)]
\* the matches exec finds in t from lastIndex i on
ExecOf == [t \in CallTexts |-> [i \in 0..Len(t) |-> MatchAllFrom(t, i + 1)]]

\* processActions(t) is called by caller c (actions.ts:37-39)
InvokeProcessActions(c) ==
    /\ callers[c].pc = "idle"
    /\ \E t \in CallTexts :
          LET re == ScannedRegExp(lastIndex)
          IN  callers' = [callers EXCEPT ![c] =
                  [fn |-> "processActions", text |-> t, pc |-> "exec", shared |-> re.shared,
                   scanIndex |-> re.lastIndex, urlMatches |-> <<>>, result |-> NoResult]]
    /\ UNCHANGED <<lastIndex, returned, singleVars>>
    /\ UNCHANGED serverVars

\* one step of the exec loop behind matchAll (actions.ts:39): the next match
\* at or after lastIndex, which moves behind it, or no match and lastIndex 0
ExecStep(c) ==
    /\ callers[c].fn = "processActions" /\ callers[c].pc = "exec"
    /\ LET from == IF callers[c].shared THEN lastIndex ELSE callers[c].scanIndex
           ms == IF from > Len(callers[c].text) THEN <<>> ELSE ExecOf[callers[c].text][from]
           found == Len(ms) > 0
           next == IF found THEN ms[1].index + Len(ms[1].m) ELSE 0
       IN  /\ callers' = [callers EXCEPT
                  ![c].urlMatches = IF found THEN Append(@, ms[1]) ELSE @,
                  ![c].scanIndex = IF callers[c].shared THEN @ ELSE next,
                  ![c].pc = IF found THEN "exec" ELSE "scanned"]
           /\ lastIndex' = IF callers[c].shared THEN next ELSE lastIndex
    /\ UNCHANGED <<returned, singleVars>>
    /\ UNCHANGED serverVars

\* actions.ts:40-68
ReturnFromProcessActions(c) ==
    /\ callers[c].fn = "processActions" /\ callers[c].pc = "scanned"
    /\ LET urls == mapCleanUrl(sliceFirst(callers[c].urlMatches))
           r == [actions |-> [k \in 1..Len(urls) |-> ViewAction(urls[k])],
                 formatted |-> FALSE]
       IN  /\ callers' = [callers EXCEPT ![c].result = r, ![c].pc = "returned"]
           /\ returned' = returned \cup
                  {[fn |-> "processActions", text |-> callers[c].text, result |-> r]}
    /\ UNCHANGED <<lastIndex, singleVars>>
    /\ UNCHANGED serverVars

\* detectMarkdown(t) is called by caller c
InvokeDetectMarkdown(c) ==
    /\ callers[c].pc = "idle"
    /\ \E t \in CallTexts :
          callers' = [callers EXCEPT ![c] =
              [IdleCaller EXCEPT !.fn = "detectMarkdown", !.text = t, !.pc = "detect"]]
    /\ UNCHANGED <<lastIndex, returned, singleVars>>
    /\ UNCHANGED serverVars

\* markdown.js:9-41, 49-70 and 78-86: the parser and the fifteen patterns are
\* created inside the call, and no pattern has the flag g or y
ReturnFromDetectMarkdown(c) ==
    /\ callers[c].fn = "detectMarkdown" /\ callers[c].pc = "detect"
    /\ LET r == [actions |-> <<>>, formatted |-> DetectMarkdownOf[callers[c].text]]
       IN  /\ callers' = [callers EXCEPT ![c].result = r, ![c].pc = "returned"]
           /\ returned' = returned \cup
                  {[fn |-> "detectMarkdown", text |-> callers[c].text, result |-> r]}
    /\ UNCHANGED <<lastIndex, singleVars>>
    /\ UNCHANGED serverVars

\* the caller has its result and may call again
NextCall(c) ==
    /\ callers[c].pc = "returned"
    /\ callers' = [callers EXCEPT ![c] = IdleCaller]
    /\ UNCHANGED <<lastIndex, returned, singleVars>>
    /\ UNCHANGED serverVars

NextCalls ==
    \E c \in 1..MaxCallers :
        \/ InvokeProcessActions(c)
        \/ ExecStep(c)
        \/ ReturnFromProcessActions(c)
        \/ InvokeDetectMarkdown(c)
        \/ ReturnFromDetectMarkdown(c)
        \/ NextCall(c)

SpecCalls == Init /\ [][NextCalls]_vars

(***************************************************************************)
(* initializeServer (index.ts:29-71 and 272-278)                           *)
(***************************************************************************)
InitServer ==
    /\ fn = "none"
    /\ pc = "idle"
    /\ text = <<>>
    /\ urlMatches = <<>>
    /\ actionUrls = <<>>
    /\ actions = <<>>
    /\ tokens = <<>>
    /\ hasMarkdownStructure = FALSE
    /\ patternsTested = FALSE
    /\ result = FALSE
    /\ callers = [c \in 1..MaxCallers |-> IdleCaller]
    /\ lastIndex = 0
    /\ returned = {}
    /\ env \in [NTFY_TOPIC : EnvTopics, NTFY_URL : EnvUrls, NTFY_TOKEN : EnvTokens,
                 PROTECTED_TOPIC : EnvProtected]
    /\ ModuleLoaded

Exit(code) == [proc EXCEPT !.state = "exited", !.exitCode = Some(code)]

\* index.ts:30-36
ExitMissingTopic ==
    /\ proc.state = "initializing"
    /\ ~Truthy(NTFY_TOPIC)
    /\ proc' = Exit(1)
    /\ UNCHANGED <<configVars, toolVars, singleVars, callVars>>

\* index.ts:39-50: the topic is protected and there is no token, prompts() is called
AskForToken ==
    /\ proc.state = "initializing"
    /\ Truthy(NTFY_TOPIC)
    /\ PROTECTED_TOPIC /\ NTFY_TOKEN = <<>>
    /\ proc' = [proc EXCEPT !.state = "prompting", !.prompted = TRUE]
    /\ UNCHANGED <<configVars, toolVars, singleVars, callVars>>

\* index.ts:39 and 61-64: no prompt is needed
SkipPrompt ==
    /\ proc.state = "initializing"
    /\ Truthy(NTFY_TOPIC)
    /\ ~(PROTECTED_TOPIC /\ NTFY_TOKEN = <<>>)
    /\ proc' = [proc EXCEPT !.state = "create"]
    /\ UNCHANGED <<configVars, toolVars, singleVars, callVars>>

\* index.ts:52-57: the prompt resolves with a token
PromptGivesToken ==
    /\ proc.state = "prompting"
    /\ \E r \in PromptReplies :
          /\ OrElse(r, <<>>) # <<>>
          /\ NTFY_TOKEN' = OrElse(r, <<>>)
    /\ proc' = [proc EXCEPT !.state = "create", !.prompt = "token"]
    /\ UNCHANGED <<env, NTFY_TOPIC, NTFY_URL, PROTECTED_TOPIC, toolVars, singleVars, callVars>>

\* index.ts:52-56: the prompt resolves with no token or an empty one
PromptGivesNothing ==
    /\ proc.state = "prompting"
    /\ \E r \in PromptReplies :
          /\ OrElse(r, <<>>) = <<>>
          /\ NTFY_TOKEN' = OrElse(r, <<>>)
    /\ proc' = [Exit(1) EXCEPT !.prompt = "empty"]
    /\ UNCHANGED <<env, NTFY_TOPIC, NTFY_URL, PROTECTED_TOPIC, toolVars, singleVars, callVars>>

\* index.ts:46-49: onCancel
PromptCancelled ==
    /\ proc.state = "prompting"
    /\ proc' = [Exit(1) EXCEPT !.prompt = "cancelled"]
    /\ UNCHANGED <<configVars, toolVars, singleVars, callVars>>

\* index.ts:58-60: prompts() throws
PromptFails ==
    /\ proc.state = "prompting"
    /\ proc' = [Exit(1) EXCEPT !.prompt = "failed"]
    /\ UNCHANGED <<configVars, toolVars, singleVars, callVars>>

\* index.ts:67-70
CreateServer ==
    /\ proc.state = "create"
    /\ proc' = [proc EXCEPT !.state = "register", !.server = TRUE]
    /\ UNCHANGED <<configVars, toolVars, singleVars, callVars>>

\* index.ts:73-190
RegisterNtfyMe ==
    /\ proc.state = "register"
    /\ "ntfy_me" \notin proc.tools
    /\ proc' = [proc EXCEPT !.tools = @ \cup {"ntfy_me"}]
    /\ UNCHANGED <<configVars, toolVars, singleVars, callVars>>

\* index.ts:193-270
RegisterNtfyMeFetch ==
    /\ proc.state = "register"
    /\ "ntfy_me" \in proc.tools
    /\ proc' = [proc EXCEPT !.tools = @ \cup {"ntfy_me_fetch"}, !.state = "connect"]
    /\ UNCHANGED <<configVars, toolVars, singleVars, callVars>>

\* index.ts:273-276: server.connect(transport) resolves
ConnectResolves ==
    /\ proc.state = "connect"
    /\ proc' = [proc EXCEPT !.state = "serving", !.connected = TRUE]
    /\ UNCHANGED <<configVars, toolVars, singleVars, callVars>>

\* index.ts:277: server.connect(transport) rejects, the error is logged
ConnectRejects ==
    /\ proc.state = "connect"
    /\ proc' = [proc EXCEPT !.state = "failed"]
    /\ UNCHANGED <<configVars, toolVars, singleVars, callVars>>

Startup ==
    \/ ExitMissingTopic
    \/ AskForToken
    \/ SkipPrompt
    \/ PromptGivesToken
    \/ PromptGivesNothing
    \/ PromptCancelled
    \/ PromptFails
    \/ CreateServer
    \/ RegisterNtfyMe
    \/ RegisterNtfyMeFetch
    \/ ConnectResolves
    \/ ConnectRejects

(***************************************************************************)
(* The ntfy_me handler (index.ts:93-189)                                   *)
(***************************************************************************)
\* index.ts:180-189 and 259-268: the catch block returns the error result,
\* nothing loops back to fetch
AfterFailureRetry == "fetch"
AfterFailure == "done"

\* a slip that returns the error text without the isError flag
ErrorResultUnflagged(prefix, message) ==
    [isError |-> FALSE, text |-> prefix \o message, more |-> <<>>]
ErrorResult(prefix, message) == [isError |-> TRUE, text |-> prefix \o message, more |-> <<>>]

\* the tool is invoked by the client
CallNtfyMe ==
    /\ proc.state = "serving" /\ "ntfy_me" \in proc.tools
    /\ call.pc = "idle"
    /\ \E args \in NtfyMeArgs :
          call' = [tool |-> "ntfy_me", pc |-> "prepare", args |-> args]
    /\ requests' = <<>>
    /\ toolResult' = NoToolResult
    /\ UNCHANGED <<configVars, proc, singleVars, callVars>>

\* index.ts:95-146
PrepareNotification ==
    /\ call.tool = "ntfy_me" /\ call.pc = "prepare"
    /\ call' = [tool |-> "ntfy_me", pc |-> "fetch", args |-> call.args,
                local |-> PrepareNtfyMe(call.args), status |-> 0]
    /\ UNCHANGED <<configVars, proc, requests, toolResult, singleVars, callVars>>

\* index.ts:148-152: fetch issues the POST request
SendNotification ==
    /\ call.tool = "ntfy_me" /\ call.pc = "fetch"
    /\ Sendable(call.local.cleanEndpoint, call.local.headers)
    /\ requests' = Append(requests,
                          [url |-> call.local.cleanEndpoint, method |-> "POST",
                           body |-> notificationBody(call.args.taskSummary),
                           headers |-> call.local.headers])
    /\ call' = [call EXCEPT !.pc = "await"]
    /\ UNCHANGED <<configVars, proc, toolResult, singleVars, callVars>>

\* index.ts:148 and 180-189: fetch refuses the URL or the headers and throws
NotificationNotSendable ==
    /\ call.tool = "ntfy_me" /\ call.pc = "fetch"
    /\ ~Sendable(call.local.cleanEndpoint, call.local.headers)
    /\ toolResult' = ErrorResult(FailedToSendPrefix, NetworkMessage)
    /\ call' = [call EXCEPT !.pc = "done"]
    /\ UNCHANGED <<configVars, proc, requests, singleVars, callVars>>

\* index.ts:148 and 180-189: no response, fetch rejects
NotificationNetworkError ==
    /\ call.tool = "ntfy_me" /\ call.pc = "await"
    /\ toolResult' = ErrorResult(FailedToSendPrefix, NetworkMessage)
    /\ call' = [call EXCEPT !.pc = AfterFailure]
    /\ UNCHANGED <<configVars, proc, requests, singleVars, callVars>>

\* index.ts:154 and 172-179: the response is ok
NotificationAccepted ==
    /\ call.tool = "ntfy_me" /\ call.pc = "await"
    /\ \E status \in Statuses :
          /\ Ok(status)
          /\ call' = [call EXCEPT !.pc = "done", !.status = status]
    /\ toolResult' = [isError |-> FALSE,
                       text |-> SentPrefix \o call.local.cleanEndpoint \o <<"!">>,
                       more |-> <<>>]
    /\ UNCHANGED <<configVars, proc, requests, singleVars, callVars>>

\* index.ts:154-170 and 180-189: the response is not ok
NotificationRefused ==
    /\ call.tool = "ntfy_me" /\ call.pc = "await"
    /\ \E status \in Statuses :
          /\ ~Ok(status)
          /\ call' = [call EXCEPT !.pc = AfterFailure, !.status = status]
          /\ toolResult' = ErrorResult(FailedToSendPrefix,
                                SendFailure(status, call.local.url, call.local.topic, ErrorBody))
    /\ UNCHANGED <<configVars, proc, requests, singleVars, callVars>>

\* the result has gone back to the client, the invocation is over
ReturnToolResult ==
    /\ call.pc = "done"
    /\ call' = NoCall
    /\ requests' = <<>>
    /\ toolResult' = NoToolResult
    /\ UNCHANGED <<configVars, proc, singleVars, callVars>>

NtfyMe ==
    \/ CallNtfyMe
    \/ PrepareNotification
    \/ SendNotification
    \/ NotificationNotSendable
    \/ NotificationNetworkError
    \/ NotificationAccepted
    \/ NotificationRefused

(***************************************************************************)
(* The ntfy_me_fetch handler (index.ts:208-269) with fetchMessages inlined *)
(***************************************************************************)
CallNtfyMeFetch ==
    /\ proc.state = "serving" /\ "ntfy_me_fetch" \in proc.tools
    /\ call.pc = "idle"
    /\ \E args \in FetchArgs :
          call' = [tool |-> "ntfy_me_fetch", pc |-> "prepare", args |-> args]
    /\ requests' = <<>>
    /\ toolResult' = NoToolResult
    /\ UNCHANGED <<configVars, proc, singleVars, callVars>>

\* index.ts:209-227 and messages.ts:91-146
PrepareFetchRequest ==
    /\ call.tool = "ntfy_me_fetch" /\ call.pc = "prepare"
    /\ call' = [tool |-> "ntfy_me_fetch", pc |-> "fetch", args |-> call.args,
                local |-> PrepareFetch(call.args), status |-> 0, body |-> <<>>]
    /\ UNCHANGED <<configVars, proc, requests, toolResult, singleVars, callVars>>

\* messages.ts:149: fetch issues the GET request
SendFetchRequest ==
    /\ call.tool = "ntfy_me_fetch" /\ call.pc = "fetch"
    /\ Sendable(call.local.endpoint, call.local.headers)
    /\ requests' = Append(requests,
                          [url |-> call.local.endpoint, method |-> "GET", body |-> <<>>,
                           headers |-> call.local.headers])
    /\ call' = [call EXCEPT !.pc = "await"]
    /\ UNCHANGED <<configVars, proc, toolResult, singleVars, callVars>>

\* messages.ts:149 and 193-195, index.ts:259-268: fetch refuses the URL or the headers
FetchNotSendable ==
    /\ call.tool = "ntfy_me_fetch" /\ call.pc = "fetch"
    /\ ~Sendable(call.local.endpoint, call.local.headers)
    /\ toolResult' = ErrorResult(FailedToFetchPrefix, NetworkMessage)
    /\ call' = [call EXCEPT !.pc = "done"]
    /\ UNCHANGED <<configVars, proc, requests, singleVars, callVars>>

\* messages.ts:149 and 193-195, index.ts:259-268: no response, fetch rejects
FetchNetworkError ==
    /\ call.tool = "ntfy_me_fetch" /\ call.pc = "await"
    /\ toolResult' = ErrorResult(FailedToFetchPrefix, NetworkMessage)
    /\ call' = [call EXCEPT !.pc = AfterFailure]
    /\ UNCHANGED <<configVars, proc, requests, singleVars, callVars>>

\* messages.ts:167-195 and index.ts:218-268: the result of the tool for the
\* body of an ok response
FetchOutcome(rawResponse, topic) ==
    IF rawResponse # <<>> /\ GroupingThrows(ParseLines(Split(rawResponse)))
    THEN ErrorResult(FailedToFetchPrefix, PushNotAFunction)
    ELSE FetchResult(MessageRecords(rawResponse), topic)

\* messages.ts:167-192 and index.ts:230-257: the response is ok
MessagesReceived ==
    /\ call.tool = "ntfy_me_fetch" /\ call.pc = "await"
    /\ \E status \in Statuses, rawResponse \in Bodies :
          /\ Ok(status)
          /\ call' = [call EXCEPT !.pc = "done", !.status = status, !.body = rawResponse]
          /\ toolResult' = FetchOutcome(rawResponse, call.local.topic)
    /\ UNCHANGED <<configVars, proc, requests, singleVars, callVars>>

\* messages.ts:151-164 and 193-195, index.ts:259-268: the response is not ok
FetchRefused ==
    /\ call.tool = "ntfy_me_fetch" /\ call.pc = "await"
    /\ \E status \in Statuses :
          /\ ~Ok(status)
          /\ call' = [call EXCEPT !.pc = AfterFailure, !.status = status]
          /\ toolResult' = ErrorResult(FailedToFetchPrefix,
                                FetchFailure(status, call.local.topic, ErrorBody))
    /\ UNCHANGED <<configVars, proc, requests, singleVars, callVars>>

NtfyMeFetch ==
    \/ CallNtfyMeFetch
    \/ PrepareFetchRequest
    \/ SendFetchRequest
    \/ FetchNotSendable
    \/ FetchNetworkError
    \/ MessagesReceived
    \/ FetchRefused

NextServer ==
    \/ Startup
    \/ NtfyMe
    \/ NtfyMeFetch
    \/ ReturnToolResult

SpecServer == InitServer /\ [][NextServer]_vars

(***************************************************************************)
(* Properties of processActions                                            *)
(***************************************************************************)
ActionsReturned == fn = "processActions" /\ pc = "returned"

\* C1: whatever the number of URL matches in the text, processActions never
\* holds and never returns more than 3 actions.
C1_AtMostThreeActions ==
    fn = "processActions" => Len(actions) <= 3

C1_Witness ==
    ActionsReturned /\ Len(urlMatches) > 3 /\ Len(actions) = 3

\* C2: with n matches the returned actions are the first min(3, n) matches,
\* one action per match, in ascending order of match start offset; of four
\* URLs a, b, c, d the result is a, b, c.  Duplicates are kept.
C2_FirstMatchesInOrder ==
    ActionsReturned =>
        /\ Len(actions) = (IF Len(urlMatches) < 3 THEN Len(urlMatches) ELSE 3)
        /\ \A k \in 1..Len(actions) :
              /\ HasAt(text, urlMatches[k].index + 1, urlMatches[k].m)
              /\ actions[k].url \in {urlMatches[k].m, DropLast(urlMatches[k].m)}
        /\ \A j, k \in 1..Len(urlMatches) :
              j < k => urlMatches[j].index < urlMatches[k].index
        /\ (text = TextFourUrls =>
              [k \in 1..Len(actions) |-> actions[k].url] = <<UrlA, UrlB, UrlC>>)
        /\ (text = FragA \o <<" ">> \o FragA =>
              [k \in 1..Len(actions) |-> actions[k].url] = <<UrlA, UrlA>>)

C2_Witness ==
    /\ ActionsReturned
    /\ text = TextFourUrls
    /\ Len(urlMatches) = 4
    /\ [k \in 1..Len(actions) |-> actions[k].url] = <<UrlA, UrlB, UrlC>>

\* C3: the cleaned URL of a match m is m without its last character when m
\* ends with ")" and has no "(" before it, and m unchanged otherwise; the
\* text "(https://example.com)" yields the target "https://example.com".
C3_CleanedUrl ==
    (fn = "processActions" /\ pc \in {"loop", "returned"}) =>
        /\ \A k \in 1..Len(actionUrls) :
              LET m == urlMatches[k].m
                  n == Len(m)
              IN  actionUrls[k] =
                      IF m[n] = ")" /\ \A j \in 1..(n - 1) : m[j] # "("
                      THEN SubSeq(m, 1, n - 1)
                      ELSE m
        /\ \A k \in 1..Len(actions) : actions[k].url = actionUrls[k]
        /\ (pc = "returned" /\ text = TextParenUrl =>
              Len(actions) = 1 /\ actions[1].url = UrlExample)

C3_Witness ==
    /\ ActionsReturned
    /\ text = TextParenUrl
    /\ urlMatches[1].m = UrlExample \o <<")">>
    /\ actions[1].url = UrlExample

\* C4: for a cleaned URL that parses, the label is "Open " followed by the
\* host name without a leading "www." and then without one trailing ".com",
\* ".org", ".net", ".io" or ".dev"; "see https://example.com/page and
\* https://foo.io" yields "Open example" and "Open foo", in that order.
C4_Label ==
    ActionsReturned =>
        /\ \A k \in 1..Len(actions) :
              UrlParses(actions[k].url) =>
                  \E pre \in {<<>>, <<"w", "w", "w", ".">>} :
                  \E suf \in {<<>>, <<".", "c", "o", "m">>, <<".", "o", "r", "g">>,
                              <<".", "n", "e", "t">>, <<".", "i", "o">>, <<".", "d", "e", "v">>} :
                      LET h == Hostname(actions[k].url)
                          rest == SubSeq(h, Len(pre) + 1, Len(h))
                          core == SubSeq(rest, 1, Len(rest) - Len(suf))
                      IN  /\ h = pre \o rest
                          /\ rest = core \o suf
                          /\ (pre = <<>> => ~StartsWith(h, <<"w", "w", "w", ".">>))
                          /\ (suf = <<>> =>
                                \A w \in {<<".", "c", "o", "m">>, <<".", "o", "r", "g">>,
                                          <<".", "n", "e", "t">>, <<".", "i", "o">>,
                                          <<".", "d", "e", "v">>} : ~EndsWith(rest, w))
                          /\ actions[k].label = <<"O", "p", "e", "n", " ">> \o core
        /\ (text = TextTwoUrls =>
              /\ [k \in 1..Len(actions) |-> actions[k].url] = <<UrlExamplePage, UrlFoo>>
              /\ [k \in 1..Len(actions) |-> actions[k].label] = <<LabelExample, LabelFoo>>)

C4_Witness ==
    /\ ActionsReturned
    /\ text = TextTwoUrls
    /\ [k \in 1..Len(actions) |-> actions[k].label] = <<LabelExample, LabelFoo>>

(***************************************************************************)
(* Properties of detectMarkdown                                            *)
(***************************************************************************)
DetectReturned == fn = "detectMarkdown" /\ pc = "returned"

\* C5: detectMarkdown returns false for plain prose without markup
\* characters, such as "plain text, no formatting".  The code returns true:
\* the one paragraph is three tokens, more than the two of line 16.
C5_PlainTextIsPlain ==
    (DetectReturned /\ text = TextPlain) => result = FALSE

\* C6: detectMarkdown returns true for every text that one of the fifteen
\* fallback patterns matches, whatever the structural stage returned;
\* "**bold**" and "# Heading\nbody" are formatted.
C6_PatternsImplyFormatted ==
    DetectReturned =>
        /\ (\E i \in 1..15 : MarkdownPattern(i, text)) => result = TRUE
        /\ text \in {TextBold, TextHeading} => result = TRUE

C6_Witness ==
    /\ DetectReturned
    /\ text = TextBold
    /\ ~hasMarkdownStructure
    /\ patternsTested
    /\ result = TRUE

\* C7: detectMarkdown("") is false: the parser returns no token, the
\* structural stage returns false and no fallback pattern matches.
C7_EmptyTextIsPlain ==
    (DetectReturned /\ text = <<>>) =>
        /\ tokens = <<>>
        /\ hasMarkdownStructure = FALSE
        /\ patternsTested
        /\ result = FALSE

C7_Witness ==
    DetectReturned /\ text = <<>> /\ patternsTested /\ result = FALSE

\* C8: the result of detectMarkdown is the structural verdict OR the
\* pattern verdict, and the patterns are tested only in calls whose
\* structural stage has returned false.
C8_OrWithShortCircuit ==
    fn = "detectMarkdown" =>
        /\ patternsTested => (pc = "returned" /\ hasMarkdownStructure = FALSE)
        /\ pc = "returned" =>
              /\ result = (hasMarkdownStructure \/ \E i \in 1..15 : MarkdownPattern(i, text))
              /\ hasMarkdownStructure => ~patternsTested

C8_Witness ==
    /\ DetectReturned
    /\ hasMarkdownStructure
    /\ ~patternsTested
    /\ \E i \in 1..15 : MarkdownPattern(i, text)
    /\ result = TRUE

\* C9: the structural verdict is true iff the stream has more than 2
\* tokens, or an inline token has a child that is not plain text, or a
\* top-level token is one of the eight block types.
C9_StructuralVerdict ==
    (fn = "detectMarkdown" /\ pc \in {"combine", "returned"}) =>
        hasMarkdownStructure =
            \/ Len(tokens) > 2
            \/ /\ Len(tokens) <= 2
               /\ \E k \in 1..Len(tokens) :
                     /\ tokens[k].type = "inline"
                     /\ \E c \in 1..Len(tokens[k].children) : tokens[k].children[c] # "text"
            \/ \E k \in 1..Len(tokens) :
                  tokens[k].type \in {"heading_open", "blockquote_open", "bullet_list_open",
                                      "ordered_list_open", "fence", "hr", "table_open",
                                      "code_block"}

C9_Witness ==
    /\ DetectReturned
    /\ Len(tokens) = 3
    /\ \A k \in 1..3 : tokens[k].type \in {"paragraph_open", "inline", "paragraph_close"}
    /\ \A k \in 1..3 : \A c \in 1..Len(tokens[k].children) : tokens[k].children[c] = "text"
    /\ hasMarkdownStructure

\* C10: a parser exception is not propagated by detectMarkdown: no call of
\* detectMarkdown ends by throwing.  The code has no handler around
\* md.parse, so the exception leaves detectMarkdown.
C10_NeverThrows ==
    fn = "detectMarkdown" => pc # "threw"

\* C11: a cleaned URL that new URL() rejects does not stop processActions:
\* its action is labelled "Open link", the matches after it are still turned
\* into actions in order, and the call runs to its return (no state of the
\* call is an exception).
C11_UnparseableUrlIsNonFatal ==
    /\ (fn = "processActions" =>
          /\ pc \in {"matchAll", "checkEmpty", "loop", "returned"}
          /\ \A k \in 1..Len(actions) :
                ~UrlParses(actions[k].url) => actions[k].label = LabelOpenLink)
    /\ (ActionsReturned =>
          /\ Len(actions) = Min(3, Len(urlMatches))
          /\ \A k \in 1..Len(actions) : actions[k].url = cleanUrl(urlMatches[k].m))

C11_Witness ==
    /\ ActionsReturned
    /\ text = TextBadPortThenGood
    /\ Len(actions) = 2
    /\ ~UrlParses(actions[1].url)
    /\ actions[1].label = LabelOpenLink
    /\ UrlParses(actions[2].url)
    /\ actions[2].label = <<"O", "p", "e", "n", " ", "b">>

\* C12: a text in which URL_PATTERN matches at no position yields the empty
\* list; so does every text without "http://" or "https://" in it, and so
\* does "no urls here".
C12_NoMatchNoActions ==
    ActionsReturned =>
        /\ ((\A i \in 1..Len(text) : UrlMatchEnd(text, i) = 0) => actions = <<>>)
        /\ ((\A i \in 1..Len(text) : SchemeEnd(text, i) = 0) => actions = <<>>)
        /\ (text = TextNoUrls => actions = <<>>)

C12_Witness ==
    /\ ActionsReturned
    /\ text = TextNoUrls
    /\ urlMatches = <<>>
    /\ actions = <<>>

\* C13: every action processActions builds, at every position of the list
\* and for every text, has action = "view" and clear = true.
C13_ViewAndClear ==
    fn = "processActions" =>
        \A k \in 1..Len(actions) : actions[k].action = "view" /\ actions[k].clear = TRUE

C13_Witness ==
    /\ ActionsReturned
    /\ Len(actions) = 3
    /\ actions[3].clear = TRUE
    /\ actions[3].action = "view"

\* C14 (as stated): for every URL u written as [l](u), whatever follows the
\* link and whether or not u contains parentheses, the one extracted target
\* is u, without the closing parenthesis of the link.
C14_LinkTargetIsUrl ==
    ActionsReturned =>
        \A u \in LinkUrls : \A t \in LinkTails :
            text = LinkText(u, t) => Len(actions) = 1 /\ actions[1].url = u

\* C14 (amended): for a URL u without parentheses written as [l](u), the
\* extracted target is u when the closing parenthesis of the link is followed
\* by the end of the text or by a character that cannot continue a URL match;
\* when u contains "(" the closing parenthesis stays in the target, and when
\* a second ")" follows the link only the last ")" of the match is removed.
C14_LinkTargetWithoutParens ==
    ActionsReturned =>
        \A u \in LinkUrls : \A t \in LinkTails :
            text = LinkText(u, t) =>
                /\ Len(actions) = 1
                /\ ((~Includes(u, "(") /\ ~Includes(u, ")")
                        /\ (t = <<>> \/ t[1] \notin TailChars))
                     => actions[1].url = u)
                /\ ((Includes(u, "(") /\ (t = <<>> \/ t[1] \notin TailChars))
                     => actions[1].url = u \o <<")">>)
                /\ ((~Includes(u, "(") /\ t = <<")">>) => actions[1].url = u \o <<")">>)
                /\ ((Includes(u, "(") /\ t = <<")">>) => actions[1].url = u \o <<")", ")">>)

C14_Witness ==
    /\ ActionsReturned
    /\ text = LinkText(FragA, <<" ", "x">>)
    /\ urlMatches[1].m = FragA \o <<")">>
    /\ Len(actions) = 1
    /\ actions[1].url = FragA

\* the number of pipe characters on the line of s that holds position p
PipesOnLine(s, p) ==
    Cardinality({q \in 1..Len(s) :
                    /\ s[q] = "|"
                    /\ \A k \in (IF p < q THEN p ELSE q)..(IF p < q THEN q ELSE p) :
                          s[k] # "\n"})

\* C16 (as stated): when the pattern stage runs on a text with a line that
\* holds at least 2 pipe characters, the text is classified as formatted; so
\* detectMarkdown("a | b | c\n--|--|--") is true.
C16_TwoPipesIsTableRow ==
    (DetectReturned /\ patternsTested /\ \E p \in 1..Len(text) : PipesOnLine(text, p) >= 2)
        => result = TRUE

\* C16 (amended): the table pattern of the fallback stage needs three pipe
\* characters on one line, each two separated by at least one character.  A
\* text whose lines hold two pipes each, such as "a | b | c\n--|--|--",
\* matches none of the fifteen patterns: detectMarkdown returns true for it
\* exactly when the structural stage does, which is the case with the parser
\* of the preset "zero".
C16_ThreePipesIsTableRow ==
    /\ (DetectReturned /\ patternsTested /\ TableRow(text) =>
          /\ result = TRUE
          /\ \E p \in 1..Len(text) : PipesOnLine(text, p) >= 3)
    /\ (DetectReturned /\ text = TextTable =>
          /\ result = hasMarkdownStructure
          /\ (patternsTested => result = FALSE)
          /\ ~hasCommonMarkdownPatterns(text)
          /\ containsMarkdown(MdParse(text))
          /\ detectMarkdown(text))

C16_Witness ==
    /\ DetectReturned
    /\ text = TextThreePipes
    /\ patternsTested
    /\ result = TRUE

\* C15: the result of processActions and of detectMarkdown depends on the
\* text only: whatever the order and overlap of the calls of several
\* callers, two calls of the same function with the same text return the
\* same result, which is the value of the function on that text, and the
\* lastIndex of the module-level URL_PATTERN stays 0.
C15_ResultDependsOnTextOnly ==
    /\ \A a, b \in returned :
          (a.fn = b.fn /\ a.text = b.text) => a.result = b.result
    /\ \A a \in returned :
          a.result = IF a.fn = "processActions"
                     THEN [actions |-> ProcessActionsOf[a.text], formatted |-> FALSE]
                     ELSE [actions |-> <<>>, formatted |-> DetectMarkdownOf[a.text]]
    /\ lastIndex = 0

C15_Witness ==
    /\ callers[1].pc = "returned" /\ callers[2].pc = "exec"
    /\ callers[1].fn = "processActions" /\ callers[2].fn = "processActions"
    /\ callers[1].text = TextAB /\ callers[2].text = TextAB
    /\ Len(callers[1].result.actions) = 2
    /\ Len(callers[2].urlMatches) = 1
    /\ [fn |-> "processActions", text |-> TextAB, result |-> callers[1].result] \in returned
    /\ Cardinality({a \in returned : a.fn = "processActions" /\ a.text = TextAB}) = 1

(***************************************************************************)
(* Properties of the server and its tools                                  *)
(***************************************************************************)
\* the ntfy_me handler has built its request
NtfyMePrepared == call.tool = "ntfy_me" /\ call.pc \in {"fetch", "await", "done"}
\* w occurs somewhere in s
Contains(s, w) == \E i \in 1..Len(s) : HasAt(s, i, w)

\* C17: when ntfy_me is called with the markdown parameter, the X-Markdown
\* header is in the request iff the parameter is true, whatever
\* detectMarkdown(taskSummary) is; without the parameter the header is in
\* the request iff detectMarkdown(taskSummary) is true.  The header value
\* is "true", and the request sent carries the headers so built.
C17_MarkdownOverride ==
    NtfyMePrepared =>
        LET markdown == call.args.markdown
            sent == call.local.headers.XMarkdown # Undefined
        IN  /\ (markdown = Some(TRUE) => sent)
            /\ (markdown = Some(FALSE) => ~sent)
            /\ (markdown = Undefined => (sent <=> detectMarkdown(call.args.taskSummary)))
            /\ (markdown = Undefined /\ call.args.taskSummary = <<>> => ~sent)
            /\ (markdown = Undefined /\ call.args.taskSummary = TextBold => sent)
            /\ (sent => call.local.headers.XMarkdown = Some(<<"t", "r", "u", "e">>))
            /\ \A k \in 1..Len(requests) :
                  requests[k].headers.XMarkdown = call.local.headers.XMarkdown

C17_Witness ==
    /\ NtfyMePrepared
    /\ Len(requests) = 1
    /\ call.args.markdown = Some(FALSE)
    /\ call.args.taskSummary = TextBold
    /\ detectMarkdown(TextBold)
    /\ requests[1].headers.XMarkdown = Undefined

JsonCustomAction ==
    <<"[", "{", "\"", "a", "c", "t", "i", "o", "n", "\"", ":", "\"", "v", "i", "e", "w", "\"", ",",
      "\"", "l", "a", "b", "e", "l", "\"", ":", "\"", "G", "o", "\"", ",", "\"", "u", "r", "l",
      "\"", ":", "\"", "h", "t", "t", "p", "s", ":", "/", "/", "o", ".", "s", "r", "v", "\"", ",",
      "\"", "c", "l", "e", "a", "r", "\"", ":", "f", "a", "l", "s", "e", "}", "]">>

\* C18: when ntfy_me is called with an actions array, an empty one included,
\* that array is the list used and nothing is extracted from the text;
\* without the parameter the list is processActions(taskSummary).  The
\* X-Actions header is in the request iff the list is not empty, and its
\* value is the JSON text of that list.
C18_ActionsOverride ==
    NtfyMePrepared =>
        LET given == call.args.actions
            viewActions == call.local.viewActions
            header == call.local.headers.XActions
        IN  /\ (given # Undefined => viewActions = given[1])
            /\ (given = Undefined => viewActions = processActions(call.args.taskSummary))
            /\ (header # Undefined <=> Len(viewActions) > 0)
            /\ (Len(viewActions) > 0 => header = Some(JsonStringify(viewActions)))
            /\ (given = Some(<<CustomAction>>) => header = Some(JsonCustomAction))
            /\ \A k \in 1..Len(requests) : requests[k].headers.XActions = header

C18_Witness ==
    /\ NtfyMePrepared
    /\ Len(requests) = 1
    /\ call.args.actions = Some(<<>>)
    /\ call.args.taskSummary = TextAB
    /\ Len(processActions(TextAB)) = 2
    /\ requests[1].headers.XActions = Undefined

\* C19: when the ntfy server answers 401 or 403, the tool (ntfy_me or
\* ntfy_me_fetch) returns an error result whose text says that the topic
\* requires an access token and how to provide one (the accessToken
\* parameter or NTFY_TOKEN), and it is neither the status-code message nor
\* a success.
C19_AuthFailureExplained ==
    (call.pc = "done" /\ call.status \in {401, 403}) =>
        /\ toolResult.isError
        /\ Contains(toolResult.text, RequiresToken)
        /\ Contains(toolResult.text, <<"a", "c", "c", "e", "s", "s", "T", "o", "k", "e", "n">>)
        /\ Contains(toolResult.text, <<"N", "T", "F", "Y", "_", "T", "O", "K", "E", "N">>)
        /\ ~Contains(toolResult.text, <<"S", "t", "a", "t", "u", "s", " ", "c", "o", "d", "e">>)

\* C20: the server is created, its tools registered and its transport
\* connected only if NTFY_TOPIC is set and, when PROTECTED_TOPIC is "true",
\* a non-empty token is there (from NTFY_TOKEN or from the prompt).  With
\* PROTECTED_TOPIC "true" and no NTFY_TOKEN the user is prompted; a prompt
\* that is cancelled, fails or gives no token, and a missing NTFY_TOPIC, end
\* the process with exit code 1 and no tool registered.  There is no prompt
\* when NTFY_TOKEN is set or PROTECTED_TOPIC is not "true".
C20_StartupGating ==
    LET protected == env.PROTECTED_TOPIC = Some(<<"t", "r", "u", "e">>)
        started == proc.server \/ proc.tools # {} \/ proc.connected
    IN  /\ (started =>
              /\ Truthy(env.NTFY_TOPIC)
              /\ (protected => NTFY_TOKEN # <<>>)
              /\ NTFY_TOKEN \in {OrElse(env.NTFY_TOKEN, <<>>), PromptToken})
        /\ (proc.connected => proc.server /\ proc.tools = {"ntfy_me", "ntfy_me_fetch"})
        /\ (proc.prompted <=>
              (protected /\ ~Truthy(env.NTFY_TOKEN) /\ Truthy(env.NTFY_TOPIC)
                  /\ proc.state # "initializing"))
        /\ (proc.prompt \in {"cancelled", "failed", "empty"} =>
              proc.state = "exited")
        /\ (~Truthy(env.NTFY_TOPIC) /\ proc.state # "initializing" => proc.state = "exited")
        /\ (proc.state = "exited" =>
              proc.exitCode = Some(1) /\ ~proc.server /\ proc.tools = {} /\ ~proc.connected)
        /\ (call.tool # "none" => proc.connected)

C20_Witness ==
    /\ proc.state = "serving"
    /\ proc.connected
    /\ proc.prompted
    /\ env.PROTECTED_TOPIC = Some(TrueText)
    /\ env.NTFY_TOKEN = Undefined
    /\ NTFY_TOKEN = PromptToken
    /\ call.tool = "ntfy_me"

\* C21: no retry. An invocation of ntfy_me or ntfy_me_fetch issues at most one
\* outbound HTTP request, and a request that failed (no response, or a status
\* that is not 2xx) is reported as an error with that single request sent.
C21_NoRetry ==
    /\ Len(requests) <= 1
    /\ (call.pc = "done" /\ ~Ok(call.status)) =>
          /\ toolResult.isError
          /\ Len(requests) <= 1
    /\ call.pc \in {"idle", "prepare"} => requests = <<>>

C21_Witness ==
    /\ call.pc = "done"
    /\ Len(requests) = 1
    /\ call.status \in Statuses /\ ~Ok(call.status)
    /\ toolResult.isError

FetchPrepared == call.tool = "ntfy_me_fetch" /\ call.pc \in {"fetch", "await", "done"}

\* C22: the since parameter of ntfy_me_fetch. When the caller omits it the
\* request carries since=10m, and every value the caller supplies is forwarded
\* unchanged at the end of the query string.
C22_SinceForwarded ==
    FetchPrepared =>
        /\ call.args.since = Undefined =>
              EndsWith(call.local.endpoint, SinceParam \o TenMinutes)
        /\ call.args.since # Undefined =>
              EndsWith(call.local.endpoint, SinceParam \o call.args.since[1].text)

\* C23: both handlers are total. An invocation ends in a returned result,
\* never in an error thrown to the protocol server; the result is a success ("Notification sent
\* successfully", "Successfully fetched") only if a request was sent and its
\* response was ok, and a network error, a status that is not 2xx or a
\* malformed URL all end in a result with isError = true.
C23_HandlersTotal ==
    /\ call.pc \in {"idle", "prepare", "fetch", "await", "done"}
    /\ call.pc = "done" =>
          /\ toolResult.text # <<>>
          /\ (StartsWith(toolResult.text, SentPrefix)
                \/ StartsWith(toolResult.text, FetchedPrefix)) =>
                /\ ~toolResult.isError
                /\ Len(requests) = 1
                /\ Ok(call.status)
          /\ ~Ok(call.status) => toolResult.isError
          /\ ~UrlParses(call.local.url) => toolResult.isError /\ requests = <<>>

C23_Witness ==
    /\ call.pc = "done"
    /\ call.args.ntfyUrl = Some(MalformedUrl)
    /\ toolResult.isError

FetchAnswered ==
    /\ call.tool = "ntfy_me_fetch" /\ call.pc = "done"
    /\ Len(requests) = 1 /\ Ok(call.status)

ParsedLines == ParseLines(Split(call.body))

\* C24: fetchMessages groups by topic without loss or duplication. For a
\* non-empty body of an ok response the result holds one group per topic, the
\* group of a topic is the sequence of the successfully parsed lines with that
\* topic in their order, and the reported count is the number of parsed lines.
C24_GroupedWithoutLoss ==
    (FetchAnswered /\ call.body # <<>>) =>
        /\ ~toolResult.isError
        /\ \A m \in Range(ParsedLines) :
              \E k \in 1..Len(toolResult.more) : toolResult.more[k].topic = m.topic
        /\ \A k \in 1..Len(toolResult.more) :
              /\ toolResult.more[k].messages # <<>>
              /\ toolResult.more[k].messages =
                    SelectSeq(ParsedLines, LAMBDA m : m.topic = toolResult.more[k].topic)
              /\ \A j \in 1..Len(toolResult.more) :
                    toolResult.more[j].topic = toolResult.more[k].topic => j = k
        /\ StartsWith(toolResult.text,
                      FetchedPrefix \o NumberText(Len(ParsedLines)) \o MessagesFrom)

SkippedLine(line) == Trim(line) = <<>> \/ JsonParse(line) = Undefined
KeptLines == SelectSeq(Split(call.body), LAMBDA line : ~SkippedLine(line))

\* C25: a response line that is blank or is not valid JSON is skipped. The
\* result for a body with such lines is the result for the same body without
\* them: they do not make the fetch fail, they are not in the result, and the
\* valid lines before and after them are returned.
C25_InvalidLinesSkipped ==
    (FetchAnswered /\ \E k \in 1..Len(Split(call.body)) : SkippedLine(Split(call.body)[k])) =>
        /\ KeptLines = <<>> => ~toolResult.isError /\ toolResult.more = <<>>
        /\ KeptLines # <<>> =>
              toolResult = FetchOutcome(Join(KeptLines, <<"\n">>), call.local.topic)
        /\ ~toolResult.isError =>
              /\ SumLengths(toolResult.more) = Len(KeptLines)
              /\ \A k \in 1..Len(toolResult.more) :
                    \A j \in 1..Len(toolResult.more[k].messages) :
                        \E i \in 1..Len(KeptLines) :
                            JsonParse(KeptLines[i]) = Some(toolResult.more[k].messages[j])

C25_Witness ==
    /\ FetchAnswered
    /\ call.body = BodyValidAroundInvalid
    /\ ~toolResult.isError
    /\ SumLengths(toolResult.more) = 3

\* C26: whenever a fetch yields zero messages (an empty body, or a body with
\* only blank or unparseable lines), ntfy_me_fetch answers "No messages found
\* in topic <topic>" and not a "Successfully fetched" summary.
C26_NoMessagesFound ==
    (FetchAnswered /\ ParsedLines = <<>>) =>
        /\ toolResult.text = NoMessagesPrefix \o call.local.topic
        /\ ~StartsWith(toolResult.text, FetchedPrefix)

ToolPrepared == call.pc \in {"fetch", "await", "done"}
EffectiveToken ==
    IF call.args.accessToken # Undefined /\ call.args.accessToken[1] # <<>>
    THEN call.args.accessToken[1] ELSE NTFY_TOKEN
TokenRule ==
    /\ call.local.token = EffectiveToken
    /\ call.local.headers.Authorization # Undefined <=> EffectiveToken # <<>>
    /\ call.local.headers.Authorization # Undefined =>
          call.local.headers.Authorization = Some(BearerPrefix \o EffectiveToken)
    /\ \A k \in 1..Len(requests) :
          requests[k].headers.Authorization = call.local.headers.Authorization

\* C27: token confinement. The effective token is the accessToken parameter
\* if it is not empty, else the configured NTFY_TOKEN; an Authorization: Bearer
\* header is sent iff the effective token is not empty; and the configured
\* NTFY_TOKEN goes only to the configured NTFY_URL server, never to a server
\* named by the caller's ntfyUrl.
C27_TokenConfinement ==
    ToolPrepared =>
        /\ TokenRule
        /\ \A k \in 1..Len(requests) :
              (NTFY_TOKEN # <<>>
                 /\ requests[k].headers.Authorization = Some(BearerPrefix \o NTFY_TOKEN)) =>
                 StartsWith(requests[k].url, BaseUrl(NTFY_URL) \o <<"/">>)

\* C28: the analysis leaves the message body unchanged. The body POSTed by
\* ntfy_me is exactly the taskSummary of the caller, whether or not URLs were
\* extracted or markdown was detected; these only add headers.
C28_BodyUnchanged ==
    (call.tool = "ntfy_me" /\ call.pc \in {"await", "done"}) =>
        \A k \in 1..Len(requests) :
            /\ requests[k].method = "POST"
            /\ requests[k].body = call.args.taskSummary
            /\ call.local.viewActions # <<>> => requests[k].headers.XActions # Undefined
            /\ call.local.shouldUseMarkdown => requests[k].headers.XMarkdown # Undefined

C28_Witness ==
    /\ call.tool = "ntfy_me" /\ call.pc = "done"
    /\ Len(requests) = 1
    /\ call.args.taskSummary = TextAB
    /\ call.args.actions = Undefined /\ call.args.markdown = Undefined
    /\ requests[1].headers.XActions # Undefined
    /\ requests[1].body = TextAB

HttpScheme == <<"h", "t", "t", "p", ":", "/", "/">>
HttpsScheme == <<"h", "t", "t", "p", "s", ":", "/", "/">>

\* C29: every target returned by processActions is a contiguous substring of
\* the text, starts with "http://" or "https://" in any letter case, holds no
\* whitespace, and is the regex match or the match without one trailing ")";
\* the final trim never changes it.
C29_TargetIsSubstring ==
    ActionsReturned =>
        \A k \in 1..Len(actions) :
            LET u == actions[k].url
                m == urlMatches[k].m
            IN  /\ HasAt(text, urlMatches[k].index + 1, m)
                /\ HasAt(text, urlMatches[k].index + 1, u)
                /\ HasAtCI(u, 1, HttpScheme) \/ HasAtCI(u, 1, HttpsScheme)
                /\ \A j \in 1..Len(u) : u[j] \notin WhiteSpace \cup LineTerminators
                /\ u = m \/ (m[Len(m)] = ")" /\ u = DropLast(m))
                /\ Trim(m) = m /\ Trim(u) = u

C29_Witness ==
    /\ ActionsReturned
    /\ text = TextParenUrl
    /\ Len(actions) = 1
    /\ actions[1].url = DropLast(urlMatches[1].m)
    /\ HasAt(text, urlMatches[1].index + 1, actions[1].url)

ActionLimit == 3

\* C30: the X-Actions header sent by ntfy_me never carries more than 3
\* actions, the action-button limit of the notification service, whatever
\* actions the caller supplies and whatever the message body is.
C30_AtMostThreeActionsSent ==
    call.tool = "ntfy_me" =>
        \A k \in 1..Len(requests) :
            requests[k].headers.XActions # Undefined =>
                /\ requests[k].headers.XActions = Some(JsonStringify(call.local.viewActions))
                /\ Len(call.local.viewActions) <= ActionLimit

====
